---------------------------- MODULE Spec2Model ----------------------------
(***************************************************************************)
(* Job manager of the agent server (letta/services/job_manager.py).        *)
(*                                                                         *)
(* State: the jobs table, the wall clock, the callback POSTs sent so far,  *)
(* and, for every task that runs safe_update_job_status_async, its         *)
(* position between the read of the current job (get_job_by_id_async, one  *)
(* session) and the write (update_job_by_id_async, another session).       *)
(***************************************************************************)
EXTENDS Integers, Sequences, FiniteSets, TLC

VARIABLES jobs, used, wasTerminal, clock, nposts, lastPost, pc, arg, upd, ret,
          script

\* job_messages and steps tables, the usage handed to add_job_usage so far,
\* and the outcome of the last job-scoped call
VARIABLES job_messages, steps, usageIn, last

\* passage tables, the vector store, and the outcome of the last passage call
VARIABLES optimized, vsOn, agent_passages, source_passages, pused, vstore,
          vsFailed, plast

\* the outcome of the last vector-store call
VARIABLES vlast

\* the audit system: the executor's pending events, the audit_events table,
\* the events logged, whether it is closed and has a database, the outcome
\* of the last log_event, and the module-level instance and its callers
VARIABLES aq, adb, alogged, aclosed, adbOpen, alast, ginst, ninst, gpc, gseen

\* the last risk score computed and the last audit HTTP response
VARIABLES risk, http

\* one call of BGEEmbedder.generate_embedded_passages: its arguments, the
\* batches that entered the semaphore, the result of each finished batch
\* and what the call gave back; and the same call seen as three counts
VARIABLES epc, echunks, ebatch, estarted, eresults, eout, ewaiting, einflight,
          efinished

\* the settings a DatabaseRegistry runs under, the registry, and the outcome
\* of the last initialize call
VARIABLES dcfg, dreg, dlast

\* the agent loop: the turn of each request, the holder of each agent's
\* lock and each agent's message history
VARIABLES lturn, llock, lhistory

\* monitoring_stats["total_events"], the value each thread read of it, each
\* thread's place in _update_monitoring_stats and the log_event calls done
VARIABLES spc, sread, stotal, sdone

assocvars == <<job_messages, steps, usageIn, last>>

auditvars == <<aq, adb, alogged, aclosed, adbOpen, alast, ginst, ninst, gpc, gseen>>

embvars == <<epc, echunks, ebatch, estarted, eresults, eout, ewaiting,
             einflight, efinished>>

dbvars == <<dcfg, dreg, dlast>>

loopvars == <<lturn, llock, lhistory>>

statvars == <<spc, sread, stotal, sdone>>

latevars == <<embvars, dbvars, loopvars, statvars>>

extvars == <<vlast, auditvars, risk, http, latevars>>

passvars == <<optimized, vsOn, agent_passages, source_passages, pused, vstore,
              vsFailed, plast>>

vars == <<jobs, used, wasTerminal, clock, nposts, lastPost, pc, arg, upd, ret,
          script, assocvars, passvars, extvars>>

basevars == <<jobs, used, wasTerminal, clock, nposts, lastPost, pc, arg, upd,
              ret, script, assocvars, passvars, vlast, auditvars, risk, http>>

(* ------------------------------ bounds -------------------------------- *)

\* the wall clock takes the values 1..MaxClock
MaxClock == 2

\* callback POSTs counted per job before dispatching operations are cut off
MaxPosts == 2

\* the batches of one call of generate_embedded_passages, at most
MaxBatches == 22

\* the calls of initialize_opengauss_database on one registry, at most
MaxInitCalls == 3

\* the log_event calls whose statistics update is followed, at most
MaxLogCalls == 5

(* ------------------------------ values -------------------------------- *)

JobIds == {"j1"}

Tasks == {1, 2}

NoStatus == "none"

NoTime == 0

NoMeta == "none"

NoCode == "none"

NoError == "none"

NonTerminal == {"created", "pending", "running"}

Terminal == {"completed", "failed", "cancelled"}

JobStatus == NonTerminal \cup Terminal

MetaVals == {"m1"}

\* what the callback endpoint does with a POST: answer with a status code,
\* or fail (timeout, connection error)
PostError == "error"

PostOutcomes == {"200", PostError}

is_terminal(s) == s \in Terminal

(* ------------------------------ records ------------------------------- *)

\* a row of the jobs table as create_job stores it
NewJob(url, meta) ==
    [status               |-> "created",
     completed_at         |-> NoTime,
     callback_url         |-> url,
     callback_sent_at     |-> NoTime,
     callback_status_code |-> NoCode,
     callback_error       |-> NoError,
     metadata             |-> meta]

\* a JobUpdate: unset fields are NoStatus / NoTime / NoMeta
JobUpdate(status, meta, completed_at) ==
    [status |-> status, metadata |-> meta, completed_at |-> completed_at]

NoUpdate == JobUpdate(NoStatus, NoMeta, NoTime)

NoArg == [job |-> "none", new |-> NoStatus]

NoRet == [val |-> "none", log |-> "none"]

\* the setattr loop over model_dump(exclude_unset, exclude_none)
SetAttrs(job, u) ==
    [job EXCEPT
       !.status       = IF u.status # NoStatus THEN u.status ELSE @,
       !.completed_at = IF u.completed_at # NoTime THEN u.completed_at ELSE @,
       !.metadata     = IF u.metadata # NoMeta THEN u.metadata ELSE @]

\* the JSON payload of a callback
Payload(id, job) ==
    [job_id       |-> id,
     status       |-> job.status,
     completed_at |-> job.completed_at,
     metadata     |-> job.metadata]

\* _dispatch_callback / _dispatch_callback_async: what the POST's outcome
\* records on the job
RecordDispatch(job, now, outcome) ==
    IF outcome # PostError
    THEN [job EXCEPT !.callback_sent_at = now,
                     !.callback_status_code = outcome]
    ELSE [job EXCEPT !.callback_sent_at = now,
                     !.callback_error = "err"]

\* update_job_by_id: whether the synchronous update stamps completed_at
\* and dispatches
SyncCompletes(job, u) ==
    u.status \in {"completed", "failed"} /\ job.completed_at = NoTime

\* update_job_by_id_async: the same decision in the asynchronous update
AsyncCompletes(job, u) ==
    u.status \in {"completed", "failed"}

\* the job as an update leaves it before any callback
Stamped(job, u, now, completes) ==
    IF completes
    THEN [SetAttrs(job, u) EXCEPT !.completed_at = now]
    ELSE SetAttrs(job, u)

\* whether the update POSTs a callback
Dispatches(job, completes) == completes /\ job.callback_url

\* the row an update writes
Updated(job, u, now, completes, outcome) ==
    IF Dispatches(job, completes)
    THEN RecordDispatch(Stamped(job, u, now, completes), now, outcome)
    ELSE Stamped(job, u, now, completes)

NoPost == [payload |-> Payload("none", NewJob(FALSE, NoMeta)), outcome |-> "none"]

\* the POST an update of job id sends: the payload is built from the job
\* after the setattr loop and the completed_at stamp
Post(id, job, u, now, completes, outcome) ==
    [payload |-> Payload(id, Stamped(job, u, now, completes)),
     outcome |-> outcome]

\* the guard with "pending" handled like "created": any other status accepted
ValidTransition_PendingAny(cur, new) ==
    \/ is_terminal(new) /\ ~is_terminal(cur)
    \/ cur = "created" /\ new # "created"
    \/ cur = "pending" /\ new # "pending"

\* the guard without the check that the current status is not terminal
ValidTransition_TerminalAgain(cur, new) ==
    \/ is_terminal(new)
    \/ cur = "created" /\ new # "created"
    \/ cur = "pending" /\ new = "running"

\* the guard without the check that a job moved to running is pending
ValidTransition_AnyToRunning(cur, new) ==
    \/ is_terminal(new) /\ ~is_terminal(cur)
    \/ cur = "created" /\ new # "created"
    \/ new = "running"

\* the transition guard of safe_update_job_status_async
ValidTransition(cur, new) ==
    \/ is_terminal(new) /\ ~is_terminal(cur)
    \/ cur = "created" /\ new # "created"
    \/ cur = "pending" /\ new = "running"

\* the builder restarted from JobUpdate when metadata is given: status is lost
BuildUpdate_MetadataDropsStatus(new, meta, now) ==
    JobUpdate(IF meta # NoMeta THEN NoStatus ELSE new, meta,
              IF is_terminal(new) THEN now ELSE NoTime)

\* the JobUpdate safe_update_job_status_async builds
BuildUpdate(new, meta, now) ==
    JobUpdate(new, meta, IF is_terminal(new) THEN now ELSE NoTime)

(* ------------------- job messages, steps and usage -------------------- *)

\* the step rows one run may insert
MaxSteps == 3

\* the jobs that messages and steps are attached to
AssocJobIds == {"j1", "j2"}

MessageIds == {"msg1", "msg2"}

\* the message lists handed to add_messages_to_job_async
MessageLists ==
    {<<>>} \cup {<<m>> : m \in MessageIds}
           \cup {<<m, n>> : m \in MessageIds, n \in MessageIds}

\* LettaUsageStatistics of one step, as handed to add_job_usage
Usages ==
    { [completion_tokens |-> 0, prompt_tokens |-> 0, total_tokens |-> 0],
      [completion_tokens |-> 2, prompt_tokens |-> 1, total_tokens |-> 3],
      [completion_tokens |-> 1, prompt_tokens |-> 2, total_tokens |-> 4] }

\* the statistics get_job_usage returns for a job without steps
ZeroUsage ==
    [completion_tokens |-> 0, prompt_tokens |-> 0, total_tokens |-> 0,
     step_count |-> 0]

\* the Step row add_job_usage inserts
StepRow(j, usage) ==
    [job_id |-> j,
     completion_tokens |-> usage.completion_tokens,
     prompt_tokens |-> usage.prompt_tokens,
     total_tokens |-> usage.total_tokens]

\* the step rows of a job, latest first (order_by created_at desc)
RECURSIVE StepsOf(_, _)
StepsOf(rows, j) ==
    IF rows = <<>> THEN <<>>
    ELSE IF rows[Len(rows)].job_id = j
         THEN <<rows[Len(rows)]>> \o StepsOf(SubSeq(rows, 1, Len(rows) - 1), j)
         ELSE StepsOf(SubSeq(rows, 1, Len(rows) - 1), j)

\* reduce(add, (f(step) for step in rows), 0)
RECURSIVE Reduce(_, _)
Reduce(rows, field) ==
    IF rows = <<>> THEN 0 ELSE rows[1][field] + Reduce(Tail(rows), field)

\* get_job_usage reading the latest step only
SumUsage_LatestOnly(rows, j) ==
    LET latest_stats == StepsOf(rows, j) IN
    IF latest_stats = <<>> THEN ZeroUsage
    ELSE [completion_tokens |-> latest_stats[1].completion_tokens,
          prompt_tokens |-> latest_stats[1].prompt_tokens,
          total_tokens |-> latest_stats[1].total_tokens,
          step_count |-> 1]

\* the statistics get_job_usage builds from the step rows
SumUsage(rows, j) ==
    LET latest_stats == StepsOf(rows, j) IN
    IF latest_stats = <<>> THEN ZeroUsage
    ELSE [completion_tokens |-> Reduce(latest_stats, "completion_tokens"),
          prompt_tokens |-> Reduce(latest_stats, "prompt_tokens"),
          total_tokens |-> Reduce(latest_stats, "total_tokens"),
          step_count |-> Len(latest_stats)]

\* the unique constraint on job_messages.message_id: a row for one of the
\* messages exists already, or the list names a message twice
Conflicts(jm, ms) ==
    \/ \E i \in 1..Len(ms) : \E r \in jm : r[2] = ms[i]
    \/ \E i, k \in 1..Len(ms) : i # k /\ ms[i] = ms[k]

\* add_all and commit, one row committed at a time
InsertAll_RowByRow(jm, j, ms) ==
    jm \cup {<<j, ms[i]>> : i \in {k \in 1..Len(ms) : ~ \E r \in jm : r[2] = ms[k]}}

\* session.add_all(job_messages); commit: all rows or none
InsertAll(jm, j, ms) ==
    IF Conflicts(jm, ms) THEN jm
    ELSE jm \cup {<<j, ms[i]>> : i \in 1..Len(ms)}

\* the outcome of a job-scoped call
Outcome(op, j, result, value) ==
    [op |-> op, job |-> j, result |-> result, value |-> value]

NoLast == Outcome("none", "none", "none", "none")

AssocIdle ==
    /\ job_messages = {}
    /\ steps = <<>>
    /\ usageIn = [j \in AssocJobIds |-> ZeroUsage]
    /\ last = NoLast

(* ------------------- passages and the vector store -------------------- *)

PassageIds == {"p1", "p2"}

\* None, for agent_id and source_id
NoId == "none"

AgentIds == {"a1"}

SourceIds == {"s1"}

\* None, for an embedding
NoEmbedding == <<>>

Embeddings == {NoEmbedding, <<1>>, <<1, 2>>}

\* embedding_config.embedding_dim of the passages handed in
EmbeddingDim == 1

\* the metadata text is passage.text[:1000]
TextLimit == 1000

\* texts, by their length: longer than the metadata keeps
Texts == {1001}

\* text[:1000]
Truncate(text) == IF text > TextLimit THEN TextLimit ELSE text

\* created_at.isoformat()
IsoFormat(t) == <<"iso", t>>

\* a PydanticPassage handed to the manager
PydanticPassage(agent_id, source_id, embedding, text) ==
    [agent_id |-> agent_id, source_id |-> source_id, embedding |-> embedding,
     embedding_dim |-> EmbeddingDim, text |-> text]

PassageInputs ==
    {PydanticPassage(a, s, e, x) : a \in AgentIds \cup {NoId},
                                   s \in SourceIds \cup {NoId},
                                   e \in Embeddings, x \in Texts}

\* AgentPassage(**common_fields, agent_id=...)
AgentPassage(p, now) ==
    [agent_id |-> p.agent_id, source_id |-> NoId, embedding |-> p.embedding,
     embedding_dim |-> p.embedding_dim, text |-> p.text, created_at |-> now]

\* SourcePassage(**common_fields, source_id=...)
SourcePassage(p, now) ==
    [agent_id |-> NoId, source_id |-> p.source_id, embedding |-> p.embedding,
     embedding_dim |-> p.embedding_dim, text |-> p.text, created_at |-> now]

\* the columns of the two tables that an update may name
AgentColumns == {"agent_id", "embedding", "text"}

SourceColumns == {"source_id", "embedding", "text"}

\* create_agent_passage without its agent_id test
CheckAgentPassage_NoAgentTest(p) ==
    IF p.source_id # NoId THEN "ValueError" ELSE "ok"

\* the argument checks of create_agent_passage
CheckAgentPassage(p) ==
    IF p.agent_id = NoId THEN "ValueError"
    ELSE IF p.source_id # NoId THEN "ValueError"
    ELSE "ok"

\* the argument checks of create_source_passage
CheckSourcePassage(p) ==
    IF p.source_id = NoId THEN "ValueError"
    ELSE IF p.agent_id # NoId THEN "ValueError"
    ELSE "ok"

\* _preprocess_passage_for_creation: the table the passage goes to, or the
\* error raised; the assert statements are absent from an optimized build
Preprocess(p, opt) ==
    IF p.agent_id # NoId
    THEN IF p.source_id # NoId /\ ~ opt THEN "AssertionError" ELSE "agent"
    ELSE IF p.source_id # NoId THEN "source"
    ELSE "ValueError"

\* None and {} as the metadata argument of store_embedding
NoMetadata == [py |-> "None"]

EmptyMetadata == [py |-> "{}"]

\* json.dumps and json.loads of a metadata dict
JsonDumps(m) == [json |-> m]

JsonLoads(text) == text.json

\* NULL in the metadata column
SqlNull == [null |-> TRUE]

\* json.dumps(metadata) if metadata else None
MetadataColumn(m) ==
    IF m \in {NoMetadata, EmptyMetadata} THEN SqlNull ELSE JsonDumps(m)

\* the row store_embedding writes: embedding, len(embedding), metadata
StoredRow(e, m) ==
    [embedding |-> e, embedding_dim |-> Len(e), metadata |-> MetadataColumn(m)]

\* the row store_embedding upserts for a passage
VectorRow(row) ==
    StoredRow(row.embedding,
              [agent_id |-> row.agent_id,
               source_id |-> row.source_id,
               text |-> Truncate(row.text),
               created_at |-> IsoFormat(row.created_at)])

\* _sync_embedding_to_vector_store calls store_embedding
Mirrors(on, row) == on /\ row.embedding # NoEmbedding

\* the vector store after _sync_embedding_to_vector_store
SyncEmbedding(vs, on, id, row, outcome) ==
    IF Mirrors(on, row) /\ outcome = "ok"
    THEN (id :> VectorRow(row)) @@ vs
    ELSE vs

\* _sync_embedding_to_vector_store letting the store's exception through
SyncResult_Raises(on, row, outcome) ==
    IF Mirrors(on, row) /\ outcome # "ok" THEN "VectorStoreError" ELSE "ok"

\* what the create returns after _sync_embedding_to_vector_store, which
\* logs the store's exception
SyncResult(on, row, outcome) == "ok"

\* the vector store after _remove_embedding_from_vector_store
RemoveEmbedding(vs, on, id, outcome) ==
    IF on /\ outcome = "ok"
    THEN [k \in DOMAIN vs \ {id} |-> vs[k]]
    ELSE vs

\* the setattr loop over model_dump(exclude_unset=True, exclude_none=True)
UpdateRow(row, p, columns) ==
    [row EXCEPT
       !.agent_id = IF "agent_id" \in columns /\ p.agent_id # NoId
                    THEN p.agent_id ELSE @,
       !.source_id = IF "source_id" \in columns /\ p.source_id # NoId
                     THEN p.source_id ELSE @,
       !.embedding = IF p.embedding # NoEmbedding THEN p.embedding ELSE @,
       !.embedding_dim = p.embedding_dim,
       !.text = p.text]

\* the outcome of a passage call: the ids it wrote or removed, whether the
\* passage handed in had both ids, and what the vector store answered
POutcome(op, result, ids, both, vs) ==
    [op |-> op, result |-> result, ids |-> ids, both |-> both, vs |-> vs]

NoPLast == POutcome("none", "none", {}, FALSE, "none")

HasBoth(p) == p.agent_id # NoId /\ p.source_id # NoId

\* the outcomes of a vector-store statement
StoreOutcomes == {"ok", "error"}

\* what the vector store answered to a call that may not have reached it
Answer(reached, outcome) == IF reached THEN outcome ELSE "none"

PassIdle ==
    /\ optimized = FALSE
    /\ vsOn = FALSE
    /\ agent_passages = <<>>
    /\ source_passages = <<>>
    /\ pused = {}
    /\ vstore = <<>>
    /\ vsFailed = FALSE
    /\ plast = NoPLast

(* --------------------------- vector store ----------------------------- *)

\* the embeddings and queries handed to the vector store
VecEmbeddings == {<<1, 0>>, <<0, 1>>, <<1, 1>>, <<1>>}

\* the metadata handed to store_embedding
VecMetadata ==
    {NoMetadata, EmptyMetadata,
     [agent_id |-> "a1", source_id |-> NoId],
     [agent_id |-> NoId, source_id |-> "s1"]}

\* INSERT ... ON CONFLICT (passage_id) DO NOTHING
Upsert_KeepsFirst(vs, id, e, m) ==
    IF id \in DOMAIN vs THEN vs ELSE (id :> StoredRow(e, m)) @@ vs

\* INSERT ... ON CONFLICT (passage_id) DO UPDATE SET embedding,
\* embedding_dim, metadata
Upsert(vs, id, e, m) == (id :> StoredRow(e, m)) @@ vs

\* get_embedding: (embedding, metadata_dict), or None
GetEmbedding(vs, id) ==
    IF id \in DOMAIN vs
    THEN [found |-> TRUE,
          embedding |-> vs[id].embedding,
          metadata |-> IF vs[id].metadata # SqlNull
                       THEN JsonLoads(vs[id].metadata) ELSE NoMetadata]
    ELSE [found |-> FALSE]

Min(a, b) == IF a < b THEN a ELSE b

\* SUM(a.val * b.val) over the indexes the two arrays share
RECURSIVE DotUpTo(_, _, _)
DotUpTo(a, b, n) == IF n = 0 THEN 0 ELSE a[n] * b[n] + DotUpTo(a, b, n - 1)

Dot(a, b) == DotUpTo(a, b, Min(Len(a), Len(b)))

\* min_similarity of the manager's search, 0.1, as a fraction
MinSimilarityNum == 1

MinSimilarityDen == 10

\* cosine similarity of a and q >= MinSimilarityNum / MinSimilarityDen
AtLeastMin(a, q) ==
    /\ Dot(a, q) > 0
    /\ MinSimilarityDen * MinSimilarityDen * Dot(a, q) * Dot(a, q)
         >= MinSimilarityNum * MinSimilarityNum * Dot(a, a) * Dot(q, q)

\* cosine similarity of a and q >= that of b and q, both positive
MoreSimilar(a, b, q) ==
    Dot(a, q) * Dot(a, q) * Dot(b, b) >= Dot(b, q) * Dot(b, q) * Dot(a, a)

\* the %s placeholders of the search statement: two per similarity
\* expression (SELECT and HAVING), the dimension filter, the threshold and
\* the limit
Placeholders(dim) == 2 + (IF dim # 0 THEN 1 ELSE 0) + 2 + 1 + 1

\* the parameters bound to it: [q, q], the dimension,
\* [q, min_similarity, top_k]
Params(dim) == 2 + (IF dim # 0 THEN 1 ELSE 0) + 3

\* the rows the statement selects: dimension filter and threshold
Selected(vs, q, dim) ==
    {id \in DOMAIN vs :
        /\ dim # 0 => vs[id].embedding_dim = dim
        /\ AtLeastMin(vs[id].embedding, q)}

\* ORDER BY similarity DESC
Ranked(vs, q, ids) ==
    CHOOSE seq \in [1..Cardinality(ids) -> ids] :
        /\ \A i, k \in 1..Cardinality(ids) : i # k => seq[i] # seq[k]
        /\ \A i, k \in 1..Cardinality(ids) :
              i < k => MoreSimilar(vs[seq[i]].embedding, vs[seq[k]].embedding, q)

\* search_similar_passages: cursor.execute raises when the parameters do
\* not fill the placeholders
SearchSimilarPassages(vs, q, top_k, dim) ==
    IF Placeholders(dim) # Params(dim)
    THEN [result |-> "error", rows |-> <<>>]
    ELSE LET ranked == Ranked(vs, q, Selected(vs, q, dim)) IN
         [result |-> "ok", rows |-> SubSeq(ranked, 1, Min(top_k, Len(ranked)))]

\* the manager's filter of the rows found, by agent_id or source_id
RECURSIVE FilterScope(_, _, _, _)
FilterScope(vs, rows, agent_id, source_id) ==
    IF rows = <<>> THEN <<>>
    ELSE LET data == GetEmbedding(vs, Head(rows))
             rest == FilterScope(vs, Tail(rows), agent_id, source_id)
             keep == /\ data.found
                     /\ data.metadata # NoMetadata
                     /\ \/ agent_id # NoId /\ data.metadata.agent_id = agent_id
                        \/ source_id # NoId /\ data.metadata.source_id = source_id
                        \/ agent_id = NoId /\ source_id = NoId
         IN IF keep THEN <<Head(rows)>> \o rest ELSE rest

\* _search_similar_passages_in_vector_store
SearchInVectorStore(vs, on, q, top_k, agent_id, source_id) ==
    IF ~ on THEN <<>>
    ELSE LET similar_passages == SearchSimilarPassages(vs, q, top_k, Len(q)) IN
         IF similar_passages.result = "error" THEN <<>>
         ELSE FilterScope(vs, similar_passages.rows, agent_id, source_id)

\* the outcome of a vector-store call
VOutcome(op, args, result, value) ==
    [op |-> op, args |-> args, result |-> result, value |-> value]

NoVLast == VOutcome("none", [none |-> TRUE], "none", <<>>)

(* --------------------------- other state ------------------------------ *)

\* the threads that ask for the audit system
Threads == {1, 2, 3}

NoRisk == [in |-> [none |-> TRUE], out |-> 0]

NoHttp == [endpoint |-> "none", in |-> [none |-> TRUE], status |-> 0]

AuditIdle ==
    /\ aq = <<>>
    /\ adb = {}
    /\ alogged = 0
    /\ aclosed = FALSE
    /\ adbOpen = TRUE
    /\ alast = "none"
    /\ ginst = 0
    /\ ninst = 0
    /\ gpc = [t \in Threads |-> "idle"]
    /\ gseen = [t \in Threads |-> 0]

\* no call of generate_embedded_passages was made
NoEOut == [result |-> "none", passages |-> <<>>]

EmbIdle ==
    /\ epc = "idle"
    /\ echunks = <<>>
    /\ ebatch = 1
    /\ estarted = {}
    /\ eresults = <<>>
    /\ eout = NoEOut
    /\ ewaiting = 0
    /\ einflight = 0
    /\ efinished = 0

\* a DatabaseRegistry after __init__
NewRegistry ==
    [initialized |-> [sync |-> FALSE, async |-> FALSE],
     engines |-> {}, factories |-> {}, calls |-> 0,
     forced |-> FALSE, failed |-> FALSE]

NoDLast == [op |-> "none", force |-> FALSE, result |-> "none",
            trace |-> <<>>, before |-> NewRegistry]

DbIdle ==
    /\ dcfg = [enable_opengauss |-> FALSE, pg_uri |-> FALSE]
    /\ dreg = NewRegistry
    /\ dlast = NoDLast

\* the requests sent to agents, and the agents
Turns == {1, 2, 3}

Agents == {"a1", "a2"}

\* a request before its turn starts
NoTurn == [agent |-> "none", max |-> 0, calls |-> 0, pc |-> "idle",
           stop |-> "none", final |-> FALSE]

LoopIdle ==
    /\ lturn = [t \in Turns |-> NoTurn]
    /\ llock = [a \in Agents |-> 0]
    /\ lhistory = [a \in Agents |-> <<>>]

StatIdle ==
    /\ spc = [t \in Threads |-> "idle"]
    /\ sread = [t \in Threads |-> 0]
    /\ stotal = 0
    /\ sdone = 0

LateIdle == EmbIdle /\ DbIdle /\ LoopIdle /\ StatIdle

ExtIdle ==
    /\ vlast = NoVLast
    /\ AuditIdle
    /\ risk = NoRisk
    /\ http = NoHttp
    /\ LateIdle

(* ------------------------------- state -------------------------------- *)

Init ==
    /\ jobs = <<>>
    /\ used = {}
    /\ wasTerminal = {}
    /\ clock = 1
    /\ nposts = [j \in JobIds |-> 0]
    /\ lastPost = NoPost
    /\ pc = [t \in Tasks |-> "idle"]
    /\ arg = [t \in Tasks |-> NoArg]
    /\ upd = [t \in Tasks |-> NoUpdate]
    /\ ret = [t \in Tasks |-> NoRet]
    /\ script = <<>>
    /\ AssocIdle
    /\ PassIdle
    /\ ExtIdle

taskvars == <<pc, arg, upd, ret>>

\* the jobs that a step leaves in, or brings into, a terminal status
NowTerminal(js) == {j \in DOMAIN js : is_terminal(js[j].status)}

(* ------------------------------ actions ------------------------------- *)

\* time passes
Tick ==
    /\ clock < MaxClock
    /\ clock' = clock + 1
    /\ UNCHANGED <<jobs, used, wasTerminal, nposts, lastPost, taskvars, script>>
    /\ UNCHANGED <<assocvars, passvars, extvars>>

\* create_job / create_job_async
CreateJob(j, url, meta) ==
    /\ j \notin used
    /\ jobs' = (j :> NewJob(url, meta)) @@ jobs
    /\ used' = used \cup {j}
    /\ UNCHANGED <<wasTerminal, clock, nposts, lastPost, taskvars, script>>
    /\ UNCHANGED <<assocvars, passvars, extvars>>

\* the write of an update to an existing job, shared by the update paths;
\* the callback endpoint answers a dispatched POST in any of its ways
WriteJob(j, u, completes) ==
    /\ IF Dispatches(jobs[j], completes)
       THEN /\ nposts[j] < MaxPosts
            /\ nposts' = [nposts EXCEPT ![j] = @ + 1]
            /\ \E outcome \in PostOutcomes :
                  /\ jobs' = [jobs EXCEPT
                                ![j] = Updated(jobs[j], u, clock, completes, outcome)]
                  /\ lastPost' = Post(j, jobs[j], u, clock, completes, outcome)
       ELSE /\ jobs' = [jobs EXCEPT
                          ![j] = Updated(jobs[j], u, clock, completes, PostError)]
            /\ UNCHANGED <<nposts, lastPost>>
    /\ wasTerminal' = wasTerminal \cup NowTerminal(jobs')

\* update_job_by_id
UpdateJobById(j, u) ==
    /\ j \in DOMAIN jobs
    /\ WriteJob(j, u, SyncCompletes(jobs[j], u))
    /\ UNCHANGED <<used, clock, taskvars, script>>
    /\ UNCHANGED <<assocvars, passvars, extvars>>

\* update_job_by_id_async, called directly
UpdateJobByIdAsync(j, u) ==
    /\ j \in DOMAIN jobs
    /\ WriteJob(j, u, AsyncCompletes(jobs[j], u))
    /\ UNCHANGED <<used, clock, taskvars, script>>
    /\ UNCHANGED <<assocvars, passvars, extvars>>

\* delete_job_by_id / delete_job_by_id_async
DeleteJobById(j) ==
    /\ j \in DOMAIN jobs
    /\ jobs' = [k \in DOMAIN jobs \ {j} |-> jobs[k]]
    /\ UNCHANGED <<used, wasTerminal, clock, nposts, lastPost, taskvars, script>>
    /\ UNCHANGED <<assocvars, passvars, extvars>>

\* safe_update_job_status_async up to its call of update_job_by_id_async:
\* read the job, check the transition, build the update
ReadAndCheck(t, j, new, meta) ==
    /\ pc[t] = "idle"
    /\ arg' = [arg EXCEPT ![t] = [job |-> j, new |-> new]]
    /\ IF j \notin DOMAIN jobs
       THEN /\ pc' = [pc EXCEPT ![t] = "ret"]
            /\ ret' = [ret EXCEPT ![t] = [val |-> "false", log |-> "error"]]
            /\ upd' = upd
       ELSE IF ~ValidTransition(jobs[j].status, new)
       THEN /\ pc' = [pc EXCEPT ![t] = "ret"]
            /\ ret' = [ret EXCEPT ![t] = [val |-> "false", log |-> "warning"]]
            /\ upd' = upd
       ELSE /\ pc' = [pc EXCEPT ![t] = "write"]
            /\ upd' = [upd EXCEPT ![t] = BuildUpdate(new, meta, clock)]
            /\ ret' = ret
    /\ UNCHANGED <<jobs, used, wasTerminal, clock, nposts, lastPost>>
    /\ UNCHANGED <<assocvars, passvars, extvars>>

\* a call of safe_update_job_status_async with any arguments
SafeRead(t, j, new, meta) ==
    /\ script = <<>>
    /\ ReadAndCheck(t, j, new, meta)
    /\ UNCHANGED script

\* safe_update_job_status_async from its call of update_job_by_id_async on
SafeWrite(t) ==
    /\ pc[t] = "write"
    /\ pc' = [pc EXCEPT ![t] = "ret"]
    /\ upd' = [upd EXCEPT ![t] = NoUpdate]
    /\ IF arg[t].job \notin DOMAIN jobs
       THEN /\ ret' = [ret EXCEPT ![t] = [val |-> "false", log |-> "error"]]
            /\ UNCHANGED <<jobs, nposts, lastPost, wasTerminal>>
       ELSE /\ WriteJob(arg[t].job, upd[t],
                        AsyncCompletes(jobs[arg[t].job], upd[t]))
            /\ ret' = [ret EXCEPT ![t] = [val |-> "true", log |-> "none"]]
    /\ UNCHANGED <<used, clock, arg, script>>
    /\ UNCHANGED <<assocvars, passvars, extvars>>

\* the caller takes the result
Return(t) ==
    /\ pc[t] = "ret"
    /\ pc' = [pc EXCEPT ![t] = "idle"]
    /\ arg' = [arg EXCEPT ![t] = NoArg]
    /\ ret' = [ret EXCEPT ![t] = NoRet]
    /\ UNCHANGED <<jobs, used, wasTerminal, clock, nposts, lastPost, upd, script>>
    /\ UNCHANGED <<assocvars, passvars, extvars>>

Updates ==
    {JobUpdate(s, m, c) : s \in JobStatus \cup {NoStatus},
                          m \in MetaVals \cup {NoMeta},
                          c \in {NoTime, clock}}

Next ==
    \/ Tick
    \/ \E j \in JobIds, url \in BOOLEAN, m \in MetaVals \cup {NoMeta} :
          CreateJob(j, url, m)
    \/ \E j \in JobIds, u \in Updates : UpdateJobById(j, u)
    \/ \E j \in JobIds, u \in Updates : UpdateJobByIdAsync(j, u)
    \/ \E j \in JobIds : DeleteJobById(j)
    \/ \E j \in JobIds, s \in JobStatus, m \in MetaVals \cup {NoMeta} :
          SafeRead(1, j, s, m)
    \/ SafeWrite(1)
    \/ Return(1)

Spec == Init /\ [][Next]_vars

TypeOK ==
    /\ DOMAIN jobs \subseteq used
    /\ used \subseteq JobIds
    /\ clock \in 1..MaxClock
    /\ \A j \in JobIds : nposts[j] <= MaxPosts
    /\ \A t \in Tasks : pc[t] \in {"idle", "write", "ret"}


(* ---------------- two concurrent safe_update callers ------------------ *)

\* two tasks run safe_update_job_status_async concurrently; nothing else
\* updates the jobs
NextConc ==
    \/ Tick
    \/ \E j \in JobIds, url \in BOOLEAN, m \in MetaVals \cup {NoMeta} :
          CreateJob(j, url, m)
    \/ \E t \in Tasks, j \in JobIds, s \in JobStatus, m \in MetaVals \cup {NoMeta} :
          SafeRead(t, j, s, m)
    \/ \E t \in Tasks : SafeWrite(t)
    \/ \E t \in Tasks : Return(t)

SpecConc == Init /\ [][NextConc]_vars

(* ---- one client: pending, running twice in a row, then completed ----- *)

\* the statuses the client requests, in program order
T9Script == <<"pending", "running", "running", "completed">>

InitT9 ==
    /\ jobs = <<>>
    /\ used = {}
    /\ wasTerminal = {}
    /\ clock = 1
    /\ nposts = [j \in JobIds |-> 0]
    /\ lastPost = NoPost
    /\ pc = [t \in Tasks |-> "idle"]
    /\ arg = [t \in Tasks |-> NoArg]
    /\ upd = [t \in Tasks |-> NoUpdate]
    /\ ret = [t \in Tasks |-> NoRet]
    /\ script = T9Script
    /\ AssocIdle
    /\ PassIdle
    /\ ExtIdle

\* the client's next call of safe_update_job_status_async on its job
ScriptedCall(j, meta) ==
    /\ script # <<>>
    /\ j \in DOMAIN jobs
    /\ ReadAndCheck(1, j, Head(script), meta)
    /\ script' = Tail(script)

NextT9 ==
    \/ Tick
    \/ \E url \in BOOLEAN, m \in MetaVals \cup {NoMeta} : CreateJob("j1", url, m)
    \/ \E m \in MetaVals \cup {NoMeta} : ScriptedCall("j1", m)
    \/ SafeWrite(1)
    \/ Return(1)

SpecT9 == InitT9 /\ [][NextT9]_vars

(* --------------- messages, steps and usage of a job ------------------- *)

jobvars == <<jobs, used, wasTerminal, clock, nposts, lastPost, pc, arg, upd,
             ret, script>>

\* _verify_job_access: the job exists and the actor may access it
VerifyJobAccess(j) == j \in DOMAIN jobs

\* add_message_to_job
AddMessageToJob(j, m) ==
    /\ IF ~ VerifyJobAccess(j)
       THEN /\ job_messages' = job_messages
            /\ last' = Outcome("add_message_to_job", j, "NoResultFound", "none")
       ELSE /\ job_messages' = InsertAll(job_messages, j, <<m>>)
            /\ last' = Outcome("add_message_to_job", j,
                               IF Conflicts(job_messages, <<m>>)
                               THEN "IntegrityError" ELSE "ok", "none")
    /\ UNCHANGED <<jobvars, steps, usageIn, passvars, extvars>>

\* add_messages_to_job_async
AddMessagesToJobAsync(j, ms) ==
    /\ IF ms = <<>>
       THEN /\ job_messages' = job_messages
            /\ last' = Outcome("add_messages_to_job_async", j, "ok", "none")
       ELSE IF ~ VerifyJobAccess(j)
       THEN /\ job_messages' = job_messages
            /\ last' = Outcome("add_messages_to_job_async", j,
                               "NoResultFound", "none")
       ELSE /\ job_messages' = InsertAll(job_messages, j, ms)
            /\ last' = Outcome("add_messages_to_job_async", j,
                               IF Conflicts(job_messages, ms)
                               THEN "IntegrityError" ELSE "ok", "none")
    /\ UNCHANGED <<jobvars, steps, usageIn, passvars, extvars>>

\* get_job_messages: lists the job's messages
GetJobMessages(j) ==
    /\ last' = Outcome("get_job_messages", j, "ok",
                       {r[2] : r \in {x \in job_messages : x[1] = j}})
    /\ UNCHANGED <<jobvars, job_messages, steps, usageIn, passvars, extvars>>

\* get_job_steps: lists the job's steps
GetJobSteps(j) ==
    /\ last' = Outcome("get_job_steps", j, "ok", StepsOf(steps, j))
    /\ UNCHANGED <<jobvars, job_messages, steps, usageIn, passvars, extvars>>

\* add_job_usage
AddJobUsage(j, usage) ==
    /\ Len(steps) < MaxSteps
    /\ IF ~ VerifyJobAccess(j)
       THEN /\ UNCHANGED <<steps, usageIn>>
            /\ last' = Outcome("add_job_usage", j, "NoResultFound", "none")
       ELSE /\ steps' = Append(steps, StepRow(j, usage))
            /\ usageIn' =
                 [usageIn EXCEPT ![j] =
                    [completion_tokens |-> @.completion_tokens + usage.completion_tokens,
                     prompt_tokens |-> @.prompt_tokens + usage.prompt_tokens,
                     total_tokens |-> @.total_tokens + usage.total_tokens,
                     step_count |-> @.step_count + 1]]
            /\ last' = Outcome("add_job_usage", j, "ok", "none")
    /\ UNCHANGED <<jobvars, job_messages, passvars, extvars>>

\* get_job_usage
GetJobUsage(j) ==
    /\ last' = IF ~ VerifyJobAccess(j)
               THEN Outcome("get_job_usage", j, "NoResultFound", "none")
               ELSE Outcome("get_job_usage", j, "ok", SumUsage(steps, j))
    /\ UNCHANGED <<jobvars, job_messages, steps, usageIn, passvars, extvars>>

\* jobs and their messages
NextMsg ==
    \/ \E j \in AssocJobIds : CreateJob(j, FALSE, NoMeta)
    \/ \E j \in AssocJobIds, m \in MessageIds : AddMessageToJob(j, m)
    \/ \E j \in AssocJobIds, ms \in MessageLists : AddMessagesToJobAsync(j, ms)
    \/ \E j \in AssocJobIds : GetJobMessages(j)
    \/ \E j \in AssocJobIds : GetJobSteps(j)

SpecMsg == Init /\ [][NextMsg]_vars

\* jobs and their usage
NextUsage ==
    \/ \E j \in AssocJobIds : CreateJob(j, FALSE, NoMeta)
    \/ \E j \in AssocJobIds, u \in Usages : AddJobUsage(j, u)
    \/ \E j \in AssocJobIds : GetJobUsage(j)
    \/ \E j \in AssocJobIds : GetJobSteps(j)

SpecUsage == Init /\ [][NextUsage]_vars


(* ------------------------- passage manager ---------------------------- *)

pframe == <<jobvars, assocvars, optimized, vsOn, extvars>>

\* the stored row of a passage id
Row(id) ==
    IF id \in DOMAIN agent_passages THEN agent_passages[id]
    ELSE source_passages[id]

Stored == DOMAIN agent_passages \cup DOMAIN source_passages

\* create_agent_passage / create_agent_passage_async
CreateAgentPassage(id, p, outcome) ==
    /\ id \notin pused
    /\ IF CheckAgentPassage(p) # "ok"
       THEN /\ outcome = "ok"
            /\ plast' = POutcome("create_agent_passage", CheckAgentPassage(p),
                                 {}, HasBoth(p), "none")
            /\ UNCHANGED <<agent_passages, pused, vstore, vsFailed>>
       ELSE LET row == AgentPassage(p, clock) IN
            /\ outcome = "ok" \/ Mirrors(vsOn, row)
            /\ agent_passages' = (id :> row) @@ agent_passages
            /\ pused' = pused \cup {id}
            /\ vstore' = SyncEmbedding(vstore, vsOn, id, row, outcome)
            /\ vsFailed' = (vsFailed \/ outcome # "ok")
            /\ plast' = POutcome("create_agent_passage",
                                 SyncResult(vsOn, row, outcome), {id},
                                 HasBoth(p), Answer(Mirrors(vsOn, row), outcome))
    /\ UNCHANGED <<pframe, source_passages>>

\* create_source_passage / create_source_passage_async
CreateSourcePassage(id, p, outcome) ==
    /\ id \notin pused
    /\ IF CheckSourcePassage(p) # "ok"
       THEN /\ outcome = "ok"
            /\ plast' = POutcome("create_source_passage", CheckSourcePassage(p),
                                 {}, HasBoth(p), "none")
            /\ UNCHANGED <<source_passages, pused, vstore, vsFailed>>
       ELSE LET row == SourcePassage(p, clock) IN
            /\ outcome = "ok" \/ Mirrors(vsOn, row)
            /\ source_passages' = (id :> row) @@ source_passages
            /\ pused' = pused \cup {id}
            /\ vstore' = SyncEmbedding(vstore, vsOn, id, row, outcome)
            /\ vsFailed' = (vsFailed \/ outcome # "ok")
            /\ plast' = POutcome("create_source_passage",
                                 SyncResult(vsOn, row, outcome), {id},
                                 HasBoth(p), Answer(Mirrors(vsOn, row), outcome))
    /\ UNCHANGED <<pframe, agent_passages>>

\* create_passage / create_passage_async (deprecated)
CreatePassage(id, p) ==
    /\ id \notin pused
    /\ LET kind == Preprocess(p, optimized) IN
       /\ agent_passages' = IF kind = "agent"
                            THEN (id :> AgentPassage(p, clock)) @@ agent_passages
                            ELSE agent_passages
       /\ source_passages' = IF kind = "source"
                             THEN (id :> SourcePassage(p, clock)) @@ source_passages
                             ELSE source_passages
       /\ pused' = IF kind \in {"agent", "source"} THEN pused \cup {id} ELSE pused
       /\ plast' = IF kind \in {"agent", "source"}
                   THEN POutcome("create_passage", "ok", {id}, HasBoth(p), "none")
                   ELSE POutcome("create_passage", kind, {}, HasBoth(p), "none")
    /\ UNCHANGED <<pframe, vstore, vsFailed>>

\* the passage lists handed to the create-many entry points
ManyInputs ==
    {p \in PassageInputs : p.embedding # <<1, 2>>}

PassageLists ==
    {<<p>> : p \in ManyInputs} \cup {<<p, q>> : p \in ManyInputs, q \in ManyInputs}

\* the ids of the passages of a list
IdLists ==
    {<<i>> : i \in PassageIds}
      \cup {ik \in PassageIds \X PassageIds : ik[1] # ik[2]}

\* the rows batch_create_async inserts
BatchRows(ids, ps, kind, now) ==
    [id \in {ids[i] : i \in 1..Len(ids)} |->
        LET p == ps[CHOOSE i \in 1..Len(ids) : ids[i] = id] IN
        IF kind = "agent" THEN AgentPassage(p, now) ELSE SourcePassage(p, now)]

\* create_many_agent_passages_async
CreateManyAgentPassagesAsync(ids, ps) ==
    /\ Len(ids) = Len(ps)
    /\ \A i \in 1..Len(ids) : ids[i] \notin pused
    /\ IF \E i \in 1..Len(ps) : CheckAgentPassage(ps[i]) # "ok"
       THEN /\ plast' = POutcome("create_many_agent_passages_async", "ValueError",
                                 {}, (\E i \in 1..Len(ps) : HasBoth(ps[i])), "none")
            /\ UNCHANGED <<agent_passages, pused>>
       ELSE /\ agent_passages' = BatchRows(ids, ps, "agent", clock) @@ agent_passages
            /\ pused' = pused \cup {ids[i] : i \in 1..Len(ids)}
            /\ plast' = POutcome("create_many_agent_passages_async", "ok",
                                 {ids[i] : i \in 1..Len(ids)}, FALSE, "none")
    /\ UNCHANGED <<pframe, source_passages, vstore, vsFailed>>

\* create_many_source_passages_async
CreateManySourcePassagesAsync(ids, ps) ==
    /\ Len(ids) = Len(ps)
    /\ \A i \in 1..Len(ids) : ids[i] \notin pused
    /\ IF \E i \in 1..Len(ps) : CheckSourcePassage(ps[i]) # "ok"
       THEN /\ plast' = POutcome("create_many_source_passages_async", "ValueError",
                                 {}, (\E i \in 1..Len(ps) : HasBoth(ps[i])), "none")
            /\ UNCHANGED <<source_passages, pused>>
       ELSE /\ source_passages' = BatchRows(ids, ps, "source", clock) @@ source_passages
            /\ pused' = pused \cup {ids[i] : i \in 1..Len(ids)}
            /\ plast' = POutcome("create_many_source_passages_async", "ok",
                                 {ids[i] : i \in 1..Len(ids)}, FALSE, "none")
    /\ UNCHANGED <<pframe, agent_passages, vstore, vsFailed>>

\* update_agent_passage_by_id / update_agent_passage_by_id_async
UpdateAgentPassageById(id, p) ==
    /\ IF id \notin DOMAIN agent_passages
       THEN /\ plast' = POutcome("update_agent_passage_by_id", "ValueError", {},
                                 HasBoth(p), "none")
            /\ UNCHANGED agent_passages
       ELSE /\ agent_passages' =
                 [agent_passages EXCEPT ![id] = UpdateRow(@, p, AgentColumns)]
            /\ plast' = POutcome("update_agent_passage_by_id", "ok", {id},
                                 HasBoth(p), "none")
    /\ UNCHANGED <<pframe, source_passages, pused, vstore, vsFailed>>

\* update_source_passage_by_id / update_source_passage_by_id_async
UpdateSourcePassageById(id, p) ==
    /\ IF id \notin DOMAIN source_passages
       THEN /\ plast' = POutcome("update_source_passage_by_id", "ValueError", {},
                                 HasBoth(p), "none")
            /\ UNCHANGED source_passages
       ELSE /\ source_passages' =
                 [source_passages EXCEPT ![id] = UpdateRow(@, p, SourceColumns)]
            /\ plast' = POutcome("update_source_passage_by_id", "ok", {id},
                                 HasBoth(p), "none")
    /\ UNCHANGED <<pframe, agent_passages, pused, vstore, vsFailed>>

\* delete_agent_passage_by_id / delete_agent_passage_by_id_async
DeleteAgentPassageById(id, outcome) ==
    /\ IF id \notin DOMAIN agent_passages
       THEN /\ outcome = "ok"
            /\ plast' = POutcome("delete_agent_passage_by_id", "NoResultFound",
                                 {}, FALSE, "none")
            /\ UNCHANGED <<agent_passages, vstore, vsFailed>>
       ELSE /\ outcome = "ok" \/ vsOn
            /\ agent_passages' =
                 [k \in DOMAIN agent_passages \ {id} |-> agent_passages[k]]
            /\ vstore' = RemoveEmbedding(vstore, vsOn, id, outcome)
            /\ vsFailed' = (vsFailed \/ outcome # "ok")
            /\ plast' = POutcome("delete_agent_passage_by_id", "ok", {id}, FALSE,
                                 Answer(vsOn, outcome))
    /\ UNCHANGED <<pframe, source_passages, pused>>

\* delete_source_passage_by_id / delete_source_passage_by_id_async
DeleteSourcePassageById(id) ==
    /\ IF id \notin DOMAIN source_passages
       THEN /\ plast' = POutcome("delete_source_passage_by_id", "NoResultFound",
                                 {}, FALSE, "none")
            /\ UNCHANGED source_passages
       ELSE /\ source_passages' =
                 [k \in DOMAIN source_passages \ {id} |-> source_passages[k]]
            /\ plast' = POutcome("delete_source_passage_by_id", "ok", {id}, FALSE,
                                 "none")
    /\ UNCHANGED <<pframe, agent_passages, pused, vstore, vsFailed>>

\* a passage manager of either build, with or without a vector store
InitPassage ==
    /\ jobs = <<>>
    /\ used = {}
    /\ wasTerminal = {}
    /\ clock = 1
    /\ nposts = [j \in JobIds |-> 0]
    /\ lastPost = NoPost
    /\ pc = [t \in Tasks |-> "idle"]
    /\ arg = [t \in Tasks |-> NoArg]
    /\ upd = [t \in Tasks |-> NoUpdate]
    /\ ret = [t \in Tasks |-> NoRet]
    /\ script = <<>>
    /\ AssocIdle
    /\ optimized \in BOOLEAN
    /\ vsOn \in BOOLEAN
    /\ agent_passages = <<>>
    /\ source_passages = <<>>
    /\ pused = {}
    /\ vstore = <<>>
    /\ vsFailed = FALSE
    /\ plast = NoPLast
    /\ ExtIdle

NextPassage ==
    \/ \E id \in PassageIds, p \in PassageInputs, o \in StoreOutcomes :
          CreateAgentPassage(id, p, o)
    \/ \E id \in PassageIds, p \in PassageInputs, o \in StoreOutcomes :
          CreateSourcePassage(id, p, o)
    \/ \E id \in PassageIds, p \in PassageInputs : CreatePassage(id, p)
    \/ \E ids \in IdLists, ps \in PassageLists :
          CreateManyAgentPassagesAsync(ids, ps)
    \/ \E ids \in IdLists, ps \in PassageLists :
          CreateManySourcePassagesAsync(ids, ps)
    \/ \E id \in PassageIds, p \in PassageInputs : UpdateAgentPassageById(id, p)
    \/ \E id \in PassageIds, p \in PassageInputs : UpdateSourcePassageById(id, p)
    \/ \E id \in PassageIds, o \in StoreOutcomes : DeleteAgentPassageById(id, o)
    \/ \E id \in PassageIds : DeleteSourcePassageById(id)

SpecPassage == InitPassage /\ [][NextPassage]_vars

(* --------------------------- vector store ----------------------------- *)

vframe == <<jobvars, assocvars, optimized, agent_passages, source_passages,
            pused, vsFailed, plast, auditvars, risk, http, latevars>>

\* the scopes a search may name: an agent, a source, or none
Scopes == {<<"a1", NoId>>, <<NoId, "s1">>, <<NoId, NoId>>}

TopKs == {0, 1, 3}

\* store_embedding
StoreEmbedding(id, e, m, outcome) ==
    /\ vstore' = IF outcome = "ok" THEN Upsert(vstore, id, e, m) ELSE vstore
    /\ vlast' = VOutcome("store_embedding",
                         [id |-> id, embedding |-> e, metadata |-> m],
                         outcome, <<>>)
    /\ UNCHANGED <<vframe, vsOn>>

\* delete_embedding
DeleteEmbedding(id, outcome) ==
    /\ vstore' = IF outcome = "ok"
                 THEN [k \in DOMAIN vstore \ {id} |-> vstore[k]]
                 ELSE vstore
    /\ vlast' = VOutcome("delete_embedding", [id |-> id], outcome, <<>>)
    /\ UNCHANGED <<vframe, vsOn>>

\* _search_similar_passages_in_vector_store
SearchSimilar(q, top_k, scope) ==
    /\ vlast' = VOutcome("search",
                         [query |-> q, top_k |-> top_k,
                          agent_id |-> scope[1], source_id |-> scope[2]],
                         "ok",
                         SearchInVectorStore(vstore, vsOn, q, top_k,
                                             scope[1], scope[2]))
    /\ UNCHANGED <<vframe, vsOn, vstore>>

\* a passage manager with a vector store, and nothing stored
InitVector ==
    /\ jobs = <<>>
    /\ used = {}
    /\ wasTerminal = {}
    /\ clock = 1
    /\ nposts = [j \in JobIds |-> 0]
    /\ lastPost = NoPost
    /\ pc = [t \in Tasks |-> "idle"]
    /\ arg = [t \in Tasks |-> NoArg]
    /\ upd = [t \in Tasks |-> NoUpdate]
    /\ ret = [t \in Tasks |-> NoRet]
    /\ script = <<>>
    /\ AssocIdle
    /\ optimized = FALSE
    /\ vsOn = TRUE
    /\ agent_passages = <<>>
    /\ source_passages = <<>>
    /\ pused = {}
    /\ vstore = <<>>
    /\ vsFailed = FALSE
    /\ plast = NoPLast
    /\ ExtIdle

NextVector ==
    \/ \E id \in PassageIds, e \in VecEmbeddings, m \in VecMetadata,
          o \in StoreOutcomes : StoreEmbedding(id, e, m, o)
    \/ \E id \in PassageIds, o \in StoreOutcomes : DeleteEmbedding(id, o)
    \/ \E q \in VecEmbeddings, k \in TopKs, scope \in Scopes :
          SearchSimilar(q, k, scope)

SpecVector == InitVector /\ [][NextVector]_vars

(* ------------------------ batch_store_embeddings ---------------------- *)

\* the statements execute_batch sends in one execute (its default page_size)
PageSize == 100

\* the sizes of the batches handed in; rows are numbered from 1
BatchSizes == {1, PageSize, PageSize + 1}

BatchEmbeddings == {<<1>>, <<2>>}

BatchMetadata == [agent_id |-> "a1", source_id |-> NoId]

\* the row whose statement fails: none (0), the first or the last
BatchFailures(n) == {0, 1, n}

\* the page execute_batch puts row i in
PageOf(i) == (i - 1) \div PageSize

\* the rows that stay written: with autocommit each page is committed when
\* its execute returns, and the page of the failing row is not
BatchCommitted(n, f) == {i \in 1..n : f = 0 \/ PageOf(i) < PageOf(f)}

\* the table after batch_store_embeddings of rows 1..n with embedding e
BatchStore(vs, n, e, f) ==
    [i \in DOMAIN vs \cup BatchCommitted(n, f) |->
        IF i \in BatchCommitted(n, f) THEN StoredRow(e, BatchMetadata) ELSE vs[i]]

\* batch_store_embeddings
BatchStoreEmbeddings(n, e, f) ==
    /\ vstore' = BatchStore(vstore, n, e, f)
    /\ vlast' = VOutcome("batch_store_embeddings",
                         [n |-> n, embedding |-> e, failing |-> f],
                         IF f = 0 THEN "ok" ELSE "error", <<>>)
    /\ UNCHANGED <<vframe, vsOn>>

\* clear_all
ClearAll(outcome) ==
    /\ vstore' = IF outcome = "ok" THEN <<>> ELSE vstore
    /\ vlast' = VOutcome("clear_all", [none |-> TRUE], outcome, <<>>)
    /\ UNCHANGED <<vframe, vsOn>>

\* get_stats: total_embeddings
GetStats ==
    /\ vlast' = VOutcome("get_stats", [none |-> TRUE], "ok",
                         <<Cardinality(DOMAIN vstore)>>)
    /\ UNCHANGED <<vframe, vsOn, vstore>>

NextBatch ==
    \/ \E n \in BatchSizes, e \in BatchEmbeddings :
          \E f \in BatchFailures(n) : BatchStoreEmbeddings(n, e, f)
    \/ \E o \in StoreOutcomes : ClearAll(o)
    \/ GetStats

SpecBatch == InitVector /\ [][NextBatch]_vars

(* --------------------------- audit system ----------------------------- *)

\* the events one run may log
MaxEvents == 3

\* the ids _generate_unique_event_id may return
AuditIds == {1, 2, 3}

\* max_retries of the insert in _record_event
MaxRetries == 3

aframe == <<jobvars, assocvars, passvars, vlast, risk, http, latevars>>

gvars == <<ginst, ninst, gpc, gseen>>

\* the ids of the rows of audit_events
RowIds(db) == {r.id : r \in db}

\* the insert loop of _record_event from attempt k on: retryIds are the ids
\* generated after a collision, errs the attempts on which the database
\* raises another error
RECURSIVE InsertEvent(_, _, _, _, _)
InsertEvent(db, ev, k, retryIds, errs) ==
    IF k > MaxRetries THEN db
    ELSE IF errs[k] THEN InsertEvent(db, ev, k + 1, retryIds, errs)
    ELSE IF ev.id \in RowIds(db)
         THEN IF k < MaxRetries
              THEN InsertEvent(db, [ev EXCEPT !.id = retryIds[k]], k + 1,
                               retryIds, errs)
              ELSE db
    ELSE db \cup {ev}

\* log_event: builds the event and submits it to the executor
LogEvent(id) ==
    /\ alogged < MaxEvents
    /\ IF aclosed
       THEN /\ alast' = "RuntimeError"
            /\ UNCHANGED <<aq, alogged>>
       ELSE /\ aq' = Append(aq, [id |-> id, n |-> alogged + 1])
            /\ alogged' = alogged + 1
            /\ alast' = "ok"
    /\ UNCHANGED <<aframe, adb, aclosed, adbOpen, gvars>>

\* _record_event, run by a worker of the executor for the oldest pending
\* event
RecordEvent(retryIds, errs) ==
    /\ aq # <<>>
    /\ aq' = Tail(aq)
    /\ adb' = IF adbOpen
              THEN InsertEvent(adb, Head(aq), 1, retryIds,
                               [k \in 1..MaxRetries |-> errs[k] \/ aclosed])
              ELSE adb
    /\ UNCHANGED <<aframe, alogged, aclosed, adbOpen, alast, gvars>>

\* close: closes the database connection, then shuts the executor down
Close ==
    /\ ~ aclosed
    /\ aclosed' = TRUE
    /\ UNCHANGED <<aframe, aq, adb, alogged, adbOpen, alast, gvars>>

\* an audit system whose database was opened, or could not be
InitAudit ==
    /\ jobs = <<>>
    /\ used = {}
    /\ wasTerminal = {}
    /\ clock = 1
    /\ nposts = [j \in JobIds |-> 0]
    /\ lastPost = NoPost
    /\ pc = [t \in Tasks |-> "idle"]
    /\ arg = [t \in Tasks |-> NoArg]
    /\ upd = [t \in Tasks |-> NoUpdate]
    /\ ret = [t \in Tasks |-> NoRet]
    /\ script = <<>>
    /\ AssocIdle
    /\ PassIdle
    /\ vlast = NoVLast
    /\ risk = NoRisk
    /\ http = NoHttp
    /\ aq = <<>>
    /\ adb = {}
    /\ alogged = 0
    /\ aclosed = FALSE
    /\ adbOpen \in BOOLEAN
    /\ alast = "none"
    /\ ginst = 0
    /\ ninst = 0
    /\ gpc = [t \in Threads |-> "idle"]
    /\ gseen = [t \in Threads |-> 0]
    /\ LateIdle

NextAudit ==
    \/ \E id \in AuditIds : LogEvent(id)
    \/ \E retryIds \in [1..(MaxRetries - 1) -> AuditIds],
          errs \in [1..MaxRetries -> BOOLEAN] : RecordEvent(retryIds, errs)
    \/ Close

SpecAudit == InitAudit /\ [][NextAudit]_vars

(* ------------------------- get_audit_system --------------------------- *)

gframe == <<aframe, aq, adb, alogged, aclosed, adbOpen, alast>>

\* get_audit_system: the test of _audit_system
GetCheck(t) ==
    /\ gpc[t] = "idle"
    /\ gpc' = [gpc EXCEPT ![t] = IF ginst = 0 THEN "create" ELSE "return"]
    /\ UNCHANGED <<gframe, ginst, ninst, gseen>>

\* get_audit_system: _audit_system = ServerAuditSystem()
GetCreate(t) ==
    /\ gpc[t] = "create"
    /\ ninst' = ninst + 1
    /\ ginst' = ninst + 1
    /\ gpc' = [gpc EXCEPT ![t] = "return"]
    /\ UNCHANGED <<gframe, gseen>>

\* get_audit_system: return _audit_system
GetReturn(t) ==
    /\ gpc[t] = "return"
    /\ gseen' = [gseen EXCEPT ![t] = ginst]
    /\ gpc' = [gpc EXCEPT ![t] = "idle"]
    /\ UNCHANGED <<gframe, ginst, ninst>>

NextSingleton ==
    \/ \E t \in Threads : GetCheck(t)
    \/ \E t \in Threads : GetCreate(t)
    \/ \E t \in Threads : GetReturn(t)

SpecSingleton == Init /\ [][NextSingleton]_vars

(* ----------------------------- risk score ------------------------------ *)

\* AuditEventType
AuditEventTypes ==
    {"USER_SESSION_START", "USER_SESSION_END", "DOCUMENT_UPLOAD",
     "DOCUMENT_ACCESS", "DOCUMENT_PROCESSING", "RAG_QUERY", "RAG_SEARCH",
     "RAG_RESPONSE", "AGENT_CREATION", "AGENT_MESSAGE",
     "AGENT_MEMORY_ACCESS", "FINANCIAL_DATA_ACCESS",
     "RISK_ASSESSMENT_QUERY", "PRODUCT_INFO_QUERY", "COMPLIANCE_CHECK",
     "SYSTEM_ERROR", "AUTHENTICATION", "PERMISSION_CHECK",
     "EMBEDDING_GENERATION"}

\* AuditLevel
AuditLevels == {"INFO", "WARN", "ERROR", "SECURITY", "COMPLIANCE", "FINANCE"}

\* base_scores of _calculate_risk_score
base_scores ==
    ("USER_SESSION_START" :> 10) @@ ("DOCUMENT_UPLOAD" :> 30)
    @@ ("DOCUMENT_ACCESS" :> 25) @@ ("RAG_QUERY" :> 20)
    @@ ("RAG_SEARCH" :> 15) @@ ("AGENT_MESSAGE" :> 15)
    @@ ("FINANCIAL_DATA_ACCESS" :> 50) @@ ("RISK_ASSESSMENT_QUERY" :> 40)
    @@ ("PRODUCT_INFO_QUERY" :> 30) @@ ("COMPLIANCE_CHECK" :> 35)
    @@ ("SYSTEM_ERROR" :> 60) @@ ("AUTHENTICATION" :> 25)

\* base_scores.get(event_type, 15)
BaseScore(event_type) ==
    IF event_type \in DOMAIN base_scores THEN base_scores[event_type] ELSE 15

\* the event types whose data_content log_event analyses
AnalysedTypes ==
    {"RAG_QUERY", "FINANCIAL_DATA_ACCESS", "PRODUCT_INFO_QUERY",
     "RISK_ASSESSMENT_QUERY"}

\* financial_analysis = None
NoAnalysis == [analysed |-> FALSE, sensitive_data_detected |-> FALSE,
               risk_level |-> "low", compliance_issues |-> FALSE]

\* the results of analyze_financial_content the score depends on
Analyses ==
    [analysed : {TRUE}, sensitive_data_detected : BOOLEAN,
     risk_level : {"low", "medium", "high"}, compliance_issues : BOOLEAN]

\* details["failed_attempts"]
FailedAttempts == {0, 2, 3}

\* the arguments of _calculate_risk_score as log_event passes them
RiskInputs ==
    {in \in [event_type : AuditEventTypes,
             financial_analysis : Analyses \cup {NoAnalysis},
             success : BOOLEAN, failed_attempts : FailedAttempts,
             bulk_operation : BOOLEAN] :
        in.financial_analysis.analysed => in.event_type \in AnalysedTypes}

\* the score of _calculate_risk_score before it is capped
RawRiskScore(in) ==
    LET fa == in.financial_analysis
    IN  BaseScore(in.event_type)
        + (IF fa.analysed /\ fa.sensitive_data_detected THEN 30 ELSE 0)
        + (IF fa.analysed /\ fa.risk_level = "high" THEN 25
           ELSE IF fa.analysed /\ fa.risk_level = "medium" THEN 15 ELSE 0)
        + (IF fa.analysed /\ fa.compliance_issues THEN 20 ELSE 0)
        + (IF ~ in.success THEN 25 ELSE 0)
        + (IF in.failed_attempts > 2 THEN 20 ELSE 0)
        + (IF in.bulk_operation THEN 15 ELSE 0)

CalculateRiskScore_Uncapped(in) == RawRiskScore(in)

\* _calculate_risk_score
CalculateRiskScore(in) == Min(RawRiskScore(in), 100)

rframe == <<jobvars, assocvars, passvars, vlast, auditvars, http, latevars>>

\* log_event computing the risk_score of the event it builds
ScoreEvent(in) ==
    /\ risk' = [in |-> in, out |-> CalculateRiskScore(in)]
    /\ UNCHANGED rframe

NextRisk == \E in \in RiskInputs : ScoreEvent(in)

SpecRisk == Init /\ [][NextRisk]_vars

(* ------------------------ audit HTTP endpoints ------------------------ *)

\* the values of the format query parameter
Formats == {"html", "json", "csv", "xml"}

\* the values of the hours query parameter
Hours == {1, 24}

\* the event_type strings a caller may send
EventTypeArgs == AuditEventTypes \cup {"BOGUS"}

\* the level strings a caller may send
LevelArgs == AuditLevels \cup {"BOGUS"}

\* a response of an endpoint body: returned, or an HTTPException raised
Returned(status) == [raised |-> FALSE, status |-> status]

Raised(status) == [raised |-> TRUE, status |-> status]

\* the except Exception clause around an endpoint body
ExceptException(r) == IF r.raised THEN 500 ELSE r.status

\* the body of generate_audit_report
ReportBody(format, dbExists, generated) ==
    IF format \notin {"html", "json", "csv"} THEN Raised(400)
    ELSE IF ~ dbExists THEN Raised(404)
    ELSE IF ~ generated THEN Raised(500)
    ELSE Returned(200)

\* the body of log_audit_event
EventBody(event_type, level, logged) ==
    IF event_type \notin AuditEventTypes \/ level \notin AuditLevels
    THEN Raised(400)
    ELSE IF ~ logged THEN Raised(500)
    ELSE Returned(200)

hframe == <<jobvars, assocvars, passvars, vlast, auditvars, risk, latevars>>

\* GET /audit/report
generate_audit_report(hours, format, include_financial, dbExists, generated) ==
    /\ http' = [endpoint |-> "report",
                in |-> [hours |-> hours, format |-> format,
                        include_financial |-> include_financial,
                        dbExists |-> dbExists],
                status |-> ExceptException(ReportBody(format, dbExists,
                                                      generated))]
    /\ UNCHANGED hframe

\* POST /audit/log-event
log_audit_event(event_type, level, logged) ==
    /\ http' = [endpoint |-> "log-event",
                in |-> [event_type |-> event_type, level |-> level],
                status |-> ExceptException(EventBody(event_type, level,
                                                     logged))]
    /\ UNCHANGED hframe

NextHttp ==
    \/ \E hours \in Hours, format \in Formats, include_financial \in BOOLEAN,
          dbExists \in BOOLEAN, generated \in BOOLEAN :
          generate_audit_report(hours, format, include_financial, dbExists,
                                generated)
    \/ \E event_type \in EventTypeArgs, level \in LevelArgs,
          logged \in BOOLEAN : log_audit_event(event_type, level, logged)

SpecHttp == Init /\ [][NextHttp]_vars

(* ----------------------------- embedder ------------------------------- *)

\* self.max_concurrent_requests
max_concurrent_requests == 20

\* the chunk lists of a call
ChunkLists ==
    {<<>>, <<"a">>, <<"a", "b">>, <<"a", "b", "c">>, <<"c", "a", "b", "a">>}

\* embedding_config.batch_size
EmbedBatchSizes == {1, 2, 3}

\* request_embeddings: the embedding the provider returns for one input
Provider(text) == <<"embedding", text>>

\* the number of batches range(0, len(chunks), batch_size) makes
NumBatches(n, bs) == (n + bs - 1) \div bs

\* chunks[i : i + batch_size] of batch b
BatchOf(chunks, b, bs) ==
    SubSeq(chunks, (b - 1) * bs + 1, Min(b * bs, Len(chunks)))

BatchIndices_Local(b, n, bs) ==
    [k \in 1..(Min(b * bs, n) - (b - 1) * bs) |-> k]

\* list(range(i, min(i + batch_size, len(chunks)))) of batch b, counted from 1
BatchIndices(b, n, bs) ==
    [k \in 1..(Min(b * bs, n) - (b - 1) * bs) |-> (b - 1) * bs + k]

\* _embed_batch: zip(batch_indices, embeddings)
EmbedBatch(batch, batch_indices) ==
    [k \in 1..Min(Len(batch), Len(batch_indices)) |->
        <<batch_indices[k], Provider(batch[k])>>]

\* the semaphore lets a batch in
CanAcquire_Always(inflight) == TRUE

CanAcquire(inflight) == inflight < max_concurrent_requests

\* all_embeddings.extend(batch_result) over the results in batch order
RECURSIVE FlattenResults(_, _)
FlattenResults(results, nb) ==
    IF nb = 0 THEN <<>>
    ELSE FlattenResults(results, nb - 1) \o results[nb].pairs

\* one step of the stable sort: x goes behind the items whose index is not
\* larger
RECURSIVE InsertByIndex(_, _)
InsertByIndex(sorted, x) ==
    IF sorted = <<>> THEN <<x>>
    ELSE IF sorted[Len(sorted)][1] <= x[1] THEN Append(sorted, x)
    ELSE Append(InsertByIndex(SubSeq(sorted, 1, Len(sorted) - 1), x),
                sorted[Len(sorted)])

\* all_embeddings.sort(key=lambda x: x[0])
RECURSIVE SortByIndex(_)
SortByIndex(items) ==
    IF items = <<>> THEN <<>>
    ELSE InsertByIndex(SortByIndex(SubSeq(items, 1, Len(items) - 1)),
                       items[Len(items)])

\* the passages built from zip(chunks, sorted_embeddings)
EmbeddedPassages(chunks, sorted) ==
    [i \in 1..Min(Len(chunks), Len(sorted)) |->
        [text |-> chunks[i], embedding |-> sorted[i][2], doc_id |-> i - 1]]

EmbedOutcome_Partial(chunks, results, nb) ==
    [result |-> "ok",
     passages |-> EmbeddedPassages(chunks,
                                   SortByIndex(FlattenResults(results, nb)))]

\* what generate_embedded_passages does with the results of gather
EmbedOutcome(chunks, results, nb) ==
    IF \E b \in 1..nb : ~ results[b].ok
    THEN [result |-> "raise", passages |-> <<>>]
    ELSE [result |-> "ok",
          passages |-> EmbeddedPassages(chunks,
                           SortByIndex(FlattenResults(results, nb)))]

eframe == <<basevars, dbvars, loopvars, statvars, ewaiting, einflight,
            efinished>>

\* the batches inside the semaphore
InFlight == estarted \ DOMAIN eresults

\* generate_embedded_passages is called: it returns [] for no chunks, and
\* otherwise builds the batches and hands them to gather
GenerateEmbeddedPassages(chunks, bs) ==
    /\ epc = "idle"
    /\ echunks' = chunks
    /\ ebatch' = bs
    /\ estarted' = {}
    /\ eresults' = <<>>
    /\ IF chunks = <<>>
       THEN /\ eout' = [result |-> "ok", passages |-> <<>>]
            /\ epc' = "idle"
       ELSE /\ eout' = NoEOut
            /\ epc' = "gather"
    /\ UNCHANGED eframe

\* bounded_process of batch b enters the semaphore
BoundedProcess(b) ==
    /\ epc = "gather"
    /\ b \in 1..NumBatches(Len(echunks), ebatch)
    /\ b \notin estarted
    /\ CanAcquire(Cardinality(InFlight))
    /\ estarted' = estarted \cup {b}
    /\ UNCHANGED <<eframe, epc, echunks, ebatch, eresults, eout>>

\* the request of batch b ends, with embeddings or with an exception, and
\* bounded_process leaves the semaphore
EmbedBatchEnds(b, ok) ==
    /\ epc = "gather"
    /\ b \in InFlight
    /\ eresults' =
          (b :> [ok |-> ok,
                 pairs |-> IF ok
                           THEN EmbedBatch(BatchOf(echunks, b, ebatch),
                                           BatchIndices(b, Len(echunks),
                                                        ebatch))
                           ELSE <<>>,
                 rank |-> Cardinality(DOMAIN eresults) + 1])
          @@ eresults
    /\ UNCHANGED <<eframe, epc, echunks, ebatch, estarted, eout>>

\* gather has every result: the call raises or returns the passages
EmbedReturn ==
    /\ epc = "gather"
    /\ DOMAIN eresults = 1..NumBatches(Len(echunks), ebatch)
    /\ eout' = EmbedOutcome(echunks, eresults,
                            NumBatches(Len(echunks), ebatch))
    /\ epc' = "idle"
    /\ UNCHANGED <<eframe, echunks, ebatch, estarted, eresults>>

NextEmbed ==
    \/ \E chunks \in ChunkLists, bs \in EmbedBatchSizes :
          GenerateEmbeddedPassages(chunks, bs)
    \/ \E b \in 1..MaxBatches : BoundedProcess(b)
    \/ \E b \in 1..MaxBatches, ok \in BOOLEAN : EmbedBatchEnds(b, ok)
    \/ EmbedReturn

SpecEmbed == Init /\ [][NextEmbed]_vars

\* the same call by the number of its batches that wait for the semaphore,
\* are inside it, and have left it
cframe == <<basevars, dbvars, loopvars, statvars, epc, echunks, ebatch,
            estarted, eresults, eout>>

\* gather schedules bounded_process for each of n batches
ScheduleBatches(n) ==
    /\ ewaiting = 0
    /\ einflight = 0
    /\ ewaiting' = n
    /\ efinished' = 0
    /\ UNCHANGED <<cframe, einflight>>

\* async with semaphore: one waiting batch enters
AcquireSlot ==
    /\ ewaiting > 0
    /\ CanAcquire(einflight)
    /\ ewaiting' = ewaiting - 1
    /\ einflight' = einflight + 1
    /\ UNCHANGED <<cframe, efinished>>

\* the request of one batch ends and it leaves the semaphore
ReleaseSlot ==
    /\ einflight > 0
    /\ einflight' = einflight - 1
    /\ efinished' = efinished + 1
    /\ UNCHANGED <<cframe, ewaiting>>

NextEmbedLimit ==
    \/ \E n \in 1..MaxBatches : ScheduleBatches(n)
    \/ AcquireSlot
    \/ ReleaseSlot

SpecEmbedLimit == Init /\ [][NextEmbedLimit]_vars

(* ------------------------- DatabaseRegistry --------------------------- *)

\* initialize_opengauss_database: False only when the database cannot be
\* made to exist; a failed migration is logged and passed over
initialize_opengauss_database(enabled, dbExists, migrated) ==
    IF ~ enabled THEN TRUE
    ELSE IF ~ dbExists THEN FALSE
    ELSE TRUE

\* initialize_async looks at the sync flag before it initialises the database
AsyncInitNeeded(reg) == ~ reg.initialized.sync

FailedRegistry_EngineFirst(reg, kind) ==
    [reg EXCEPT !.failed = TRUE, !.engines = @ \cup {kind}]

\* the registry an initialize call leaves when it raises: the engine is
\* created only after the database initialisation
FailedRegistry(reg, kind) == [reg EXCEPT !.failed = TRUE]

\* initialize_sync initialises the database whenever it builds the engine
SyncInitNeeded(reg) == TRUE

\* the steps of an initialize call on registry reg: whether it returns at
\* once, whether it invokes the database initialisation (and with what
\* answer), and the registry and the outcome it ends with
InitializeRegistry(reg, kind, force, needed, dbExists, migrated) ==
    LET invoked == dcfg.pg_uri /\ dcfg.enable_opengauss /\ needed
        answer == initialize_opengauss_database(dcfg.enable_opengauss,
                                                dbExists, migrated)
        counted == [reg EXCEPT !.calls = IF invoked THEN @ + 1 ELSE @,
                               !.forced = @ \/ force]
        engine == IF dcfg.pg_uri THEN "create_engine" ELSE "create_sqlite_engine"
    IN  IF reg.initialized[kind] /\ ~ force
        THEN [reg |-> reg, result |-> "return", trace |-> <<>>]
        ELSE IF invoked /\ ~ answer
        THEN [reg |-> FailedRegistry(counted, kind),
              result |-> "RuntimeError",
              trace |-> <<"initialize_opengauss_database">>]
        ELSE [reg |-> [counted EXCEPT !.engines = @ \cup {kind},
                                      !.factories = @ \cup {kind},
                                      !.initialized[kind] = TRUE],
              result |-> "ok",
              trace |-> (IF invoked
                         THEN <<"initialize_opengauss_database">>
                         ELSE <<>>) \o <<engine, "sessionmaker">>]

dframe == <<basevars, embvars, loopvars, statvars>>

\* DatabaseRegistry.initialize_sync, under the registry lock
initialize_sync(force, dbExists, migrated) ==
    /\ dreg.calls < MaxInitCalls
    /\ LET r == InitializeRegistry(dreg, "sync", force, SyncInitNeeded(dreg),
                                   dbExists, migrated)
       IN  /\ dreg' = r.reg
           /\ dlast' = [op |-> "initialize_sync", force |-> force,
                        result |-> r.result, trace |-> r.trace,
                        before |-> dreg]
    /\ UNCHANGED <<dframe, dcfg>>

\* DatabaseRegistry.initialize_async, under the registry lock
initialize_async(force, dbExists, migrated) ==
    /\ dreg.calls < MaxInitCalls
    /\ LET r == InitializeRegistry(dreg, "async", force, AsyncInitNeeded(dreg),
                                   dbExists, migrated)
       IN  /\ dreg' = r.reg
           /\ dlast' = [op |-> "initialize_async", force |-> force,
                        result |-> r.result, trace |-> r.trace,
                        before |-> dreg]
    /\ UNCHANGED <<dframe, dcfg>>

\* a new registry under any settings
InitDb ==
    /\ jobs = <<>>
    /\ used = {}
    /\ wasTerminal = {}
    /\ clock = 1
    /\ nposts = [j \in JobIds |-> 0]
    /\ lastPost = NoPost
    /\ pc = [t \in Tasks |-> "idle"]
    /\ arg = [t \in Tasks |-> NoArg]
    /\ upd = [t \in Tasks |-> NoUpdate]
    /\ ret = [t \in Tasks |-> NoRet]
    /\ script = <<>>
    /\ AssocIdle
    /\ PassIdle
    /\ vlast = NoVLast
    /\ AuditIdle
    /\ risk = NoRisk
    /\ http = NoHttp
    /\ EmbIdle
    /\ LoopIdle
    /\ StatIdle
    /\ dcfg \in [enable_opengauss : BOOLEAN, pg_uri : BOOLEAN]
    /\ dreg = NewRegistry
    /\ dlast = NoDLast

NextDb ==
    \/ \E force, dbExists, migrated \in BOOLEAN :
          initialize_sync(force, dbExists, migrated)
    \/ \E force, dbExists, migrated \in BOOLEAN :
          initialize_async(force, dbExists, migrated)

SpecDb == InitDb /\ [][NextDb]_vars

(* ----------------------------- agent loop ----------------------------- *)

\* MAX_STEPS of a turn
StepLimits == {1, 2}

\* the answers of the LLM: tool calls, or a final assistant message
LlmAnswers == {"tool_calls", "assistant"}

LockFree_Always(lock, a) == TRUE

\* the per-agent lock is free
LockFree(lock, a) == lock[a] = 0

StepsExceeded_OneMore(calls, max) == calls > max

\* the iterations of the turn have reached MAX_STEPS
StepsExceeded(calls, max) == calls >= max

lframe == <<basevars, embvars, dbvars, statvars>>

\* a message of turn t in the history of its agent
Message(t, role) == [turn |-> t, role |-> role]

\* a request for agent a arrives: the turn takes the agent's lock, or queues
\* behind it, and once it holds the lock appends the user message
StartTurn(t, a, max) ==
    /\ lturn[t].pc \in {"idle", "queued"}
    /\ lturn[t].pc = "queued" => (a = lturn[t].agent /\ max = lturn[t].max)
    /\ IF LockFree(llock, a)
       THEN /\ llock' = [llock EXCEPT ![a] = t]
            /\ lhistory' = [lhistory EXCEPT ![a] = Append(@, Message(t, "user"))]
            /\ lturn' = [lturn EXCEPT ![t] = [NoTurn EXCEPT !.agent = a,
                                                            !.max = max,
                                                            !.pc = "llm"]]
       ELSE /\ lturn[t].pc = "idle"
            /\ lturn' = [lturn EXCEPT ![t] = [NoTurn EXCEPT !.agent = a,
                                                            !.max = max,
                                                            !.pc = "queued"]]
            /\ UNCHANGED <<llock, lhistory>>
    /\ UNCHANGED lframe

\* step 5 and 7: the LLM is invoked; a final assistant message is persisted
\* and ends the turn, which gives the lock back
InvokeLlm(t, answer) ==
    /\ lturn[t].pc = "llm"
    /\ IF answer = "assistant"
       THEN /\ lhistory' = [lhistory EXCEPT ![lturn[t].agent] =
                               Append(@, Message(t, "assistant"))]
            /\ lturn' = [lturn EXCEPT ![t].calls = @ + 1, ![t].pc = "done",
                                      ![t].stop = "end_turn",
                                      ![t].final = TRUE]
            /\ llock' = [llock EXCEPT ![lturn[t].agent] = 0]
       ELSE /\ lturn' = [lturn EXCEPT ![t].calls = @ + 1, ![t].pc = "tools"]
            /\ UNCHANGED <<llock, lhistory>>
    /\ UNCHANGED lframe

\* step 6: the tool calls are dispatched and their returns appended; the turn
\* goes back to the LLM unless MAX_STEPS is reached
DispatchTools(t) ==
    /\ lturn[t].pc = "tools"
    /\ lhistory' = [lhistory EXCEPT ![lturn[t].agent] =
                       Append(@, Message(t, "tool"))]
    /\ IF StepsExceeded(lturn[t].calls, lturn[t].max)
       THEN /\ lturn' = [lturn EXCEPT ![t].pc = "done",
                                      ![t].stop = "max_steps"]
            /\ llock' = [llock EXCEPT ![lturn[t].agent] = 0]
       ELSE /\ lturn' = [lturn EXCEPT ![t].pc = "llm"]
            /\ UNCHANGED llock
    /\ UNCHANGED lframe

NextLoop ==
    \/ \E t \in Turns, a \in Agents, max \in StepLimits : StartTurn(t, a, max)
    \/ \E t \in Turns, answer \in LlmAnswers : InvokeLlm(t, answer)
    \/ \E t \in Turns : DispatchTools(t)

SpecLoop == Init /\ [][NextLoop]_vars

(* ------------------------- monitoring_stats --------------------------- *)

sframe == <<basevars, embvars, dbvars, loopvars>>

\* _update_monitoring_stats of a log_event call on thread t reads
\* monitoring_stats["total_events"]
StatsRead(t) ==
    /\ spc[t] = "idle"
    /\ sdone + Cardinality({u \in Threads : spc[u] = "write"}) < MaxLogCalls
    /\ sread' = [sread EXCEPT ![t] = stotal]
    /\ spc' = [spc EXCEPT ![t] = "write"]
    /\ UNCHANGED <<sframe, stotal, sdone>>

\* ... and stores the value it read plus one; log_event returns
StatsWrite(t) ==
    /\ spc[t] = "write"
    /\ stotal' = sread[t] + 1
    /\ sdone' = sdone + 1
    /\ spc' = [spc EXCEPT ![t] = "idle"]
    /\ UNCHANGED <<sframe, sread>>

NextStats ==
    \/ \E t \in Threads : StatsRead(t)
    \/ \E t \in Threads : StatsWrite(t)

SpecStats == Init /\ [][NextStats]_vars

(* ------------------------------ claims -------------------------------- *)

\* the step in which task t's safe_update_job_status_async reads the job
SafeCallReads(t) == pc[t] = "idle" /\ pc'[t] # "idle"

\* the step in which task t's safe_update_job_status_async returns
SafeCallEnds(t) == pc[t] # "ret" /\ pc'[t] = "ret"

\* the jobs a step keeps
Kept == DOMAIN jobs \cap DOMAIN jobs'

\* C1: once a job's status is completed, failed or cancelled, no later
\* operation on that job (safe or direct update) changes its status.
C1_TerminalStatusNeverChanges ==
    [][\A j \in Kept :
          is_terminal(jobs[j].status) => jobs'[j].status = jobs[j].status]_vars

\* C2: in every reachable state each job whose status is terminal has a
\* non-null completed_at, whichever update path made it terminal.
C2_TerminalHasCompletedAt ==
    \A j \in DOMAIN jobs :
        is_terminal(jobs[j].status) => jobs[j].completed_at # NoTime

C3SpecAdvances == {<<"created", "pending">>, <<"pending", "running">>}

C3CodeAdvances == C3SpecAdvances \cup {<<"created", "running">>}

\* a safe update that reads a non-terminal status and requests a non-terminal
\* one goes on to the write exactly for the pairs in allowed, and is
\* otherwise skipped with the job untouched
C3Advances(allowed) ==
    \A t \in Tasks :
       (/\ SafeCallReads(t)
        /\ arg'[t].job \in DOMAIN jobs
        /\ jobs[arg'[t].job].status \in NonTerminal
        /\ arg'[t].new \in NonTerminal)
       => IF <<jobs[arg'[t].job].status, arg'[t].new>> \in allowed
          THEN /\ pc'[t] = "write"
               /\ upd'[t].status = arg'[t].new
          ELSE /\ pc'[t] = "ret"
               /\ ret'[t].val = "false"
               /\ jobs' = jobs

\* C3 as stated: SafeUpdateStatus accepts a non-terminal to non-terminal
\* change only for created -> pending and pending -> running; every other such
\* request (created -> running included) is skipped and leaves the status.
C3_OnlyTwoAdvances == [][C3Advances(C3SpecAdvances)]_vars

\* C3 amended: SafeUpdateStatus accepts a non-terminal to non-terminal change
\* only for created -> pending, created -> running and pending -> running;
\* every other such request is skipped and leaves the job unchanged.
C3_NonTerminalAdvances == [][C3Advances(C3CodeAdvances)]_vars

\* a running -> pending request was skipped
C3_Witness ==
    /\ pc[1] = "ret"
    /\ ret[1] = [val |-> "false", log |-> "warning"]
    /\ arg[1].new = "pending"
    /\ arg[1].job \in DOMAIN jobs
    /\ jobs[arg[1].job].status = "running"

\* C4: SafeUpdateStatus on a job that is already terminal, with any requested
\* status, returns False, leaves the job (status, completed_at and all other
\* fields) unchanged and dispatches no callback.
C4_TerminalJobSkipped ==
    [][\A t \in Tasks :
          (/\ SafeCallReads(t)
           /\ arg'[t].job \in DOMAIN jobs
           /\ is_terminal(jobs[arg'[t].job].status))
          => /\ pc'[t] = "ret"
             /\ ret'[t].val = "false"
             /\ jobs' = jobs
             /\ nposts' = nposts
             /\ lastPost' = lastPost]_vars

\* a completed job with its completed_at was asked to go to running: skipped
C4_Witness ==
    /\ pc[1] = "ret"
    /\ ret[1].val = "false"
    /\ arg[1].new = "running"
    /\ arg[1].job \in DOMAIN jobs
    /\ jobs[arg[1].job].status = "completed"
    /\ jobs[arg[1].job].completed_at # NoTime

\* C5: of two concurrent SafeUpdateStatus calls that request a terminal status
\* for the same job, at most one succeeds.
C5_OneTerminalWinner ==
    ~ (/\ pc[1] = "ret" /\ pc[2] = "ret"
       /\ ret[1].val = "true" /\ ret[2].val = "true"
       /\ arg[1].job = arg[2].job
       /\ is_terminal(arg[1].new) /\ is_terminal(arg[2].new))

\* C6: the callback of a job is POSTed at most once over the job's lifetime.
C6_AtMostOneCallback == \A j \in JobIds : nposts[j] <= 1

\* C7: every first transition of a job with callback_url into a terminal
\* status (completed, failed or cancelled) POSTs a callback carrying job_id,
\* status, completed_at and metadata and records callback_sent_at.
C7_FirstTerminalDispatches ==
    [][\A j \in Kept :
          (/\ jobs[j].callback_url
           /\ j \notin wasTerminal
           /\ is_terminal(jobs'[j].status))
          => /\ nposts'[j] = nposts[j] + 1
             /\ lastPost'.payload = Payload(j, jobs'[j])
             /\ jobs'[j].callback_sent_at # NoTime]_vars

\* C8: when the callback POST fails, the update still succeeds: the job is
\* stored terminal with completed_at, with callback_error and
\* callback_sent_at and no callback_status_code, and a safe update that made
\* the POST returns True.
C8_FailedPostRecorded ==
    [][\A j \in Kept :
          (nposts'[j] = nposts[j] + 1 /\ lastPost'.outcome = PostError)
          => /\ is_terminal(jobs'[j].status)
             /\ jobs'[j].completed_at # NoTime
             /\ jobs'[j].callback_error # NoError
             /\ jobs'[j].callback_sent_at # NoTime
             /\ jobs'[j].callback_status_code = NoCode
             /\ \A t \in Tasks : SafeCallEnds(t) => ret'[t].val = "true"]_vars

\* C9: SafeUpdateStatus(j, running) twice in a row on a pending job: the first
\* call returns True and leaves j running, the second returns False and
\* changes nothing on the job.
C9_RunningTwice ==
    [][/\ (Len(script) = 3 /\ Len(script') = 2)
             => jobs["j1"].status = "pending" /\ pc'[1] = "write"
       /\ (Len(script) = 2 /\ pc[1] = "write" /\ pc'[1] = "ret")
             => ret'[1].val = "true" /\ jobs'["j1"].status = "running"
       /\ (Len(script) = 2 /\ Len(script') = 1)
             => /\ jobs["j1"].status = "running"
                /\ pc'[1] = "ret"
                /\ ret'[1].val = "false"
                /\ jobs' = jobs
                /\ nposts' = nposts]_vars

\* the second running call has returned False and the job is running
C9_Witness ==
    /\ Len(script) = 1
    /\ pc[1] = "ret"
    /\ ret[1].val = "false"
    /\ arg[1].new = "running"
    /\ jobs["j1"].status = "running"

\* C10 as stated: safe_update_job_status_async returns True exactly when the
\* call changed the stored status to the requested one, and returns False
\* only when the transition was invalid and skipped.
C10_FalseOnlyWhenInvalid ==
    [][\A t \in Tasks :
          SafeCallEnds(t)
          => /\ ret'[t].val = "true"
                  <=> /\ arg'[t].job \in Kept
                      /\ jobs'[arg'[t].job].status = arg'[t].new
                      /\ jobs[arg'[t].job].status # arg'[t].new
             /\ ret'[t].val = "false"
                  => /\ arg'[t].job \in DOMAIN jobs
                     /\ ~ValidTransition(jobs[arg'[t].job].status, arg'[t].new)]_vars

\* C10 amended: safe_update_job_status_async returns True exactly when the
\* call wrote the job, which then holds the requested status; it returns
\* False when the transition was invalid (skipped, logged as a warning) or
\* when the job could not be read or updated because it does not exist
\* (logged as an error), and in both cases it wrote nothing.
C10_ReturnValue ==
    [][\A t \in Tasks :
          SafeCallEnds(t)
          => /\ ret'[t].val \in {"true", "false"}
             /\ ret'[t].val = "true"
                  => /\ arg'[t].job \in Kept
                     /\ jobs'[arg'[t].job].status = arg'[t].new
             /\ ret'[t].val = "true" <=> pc[t] = "write" /\ arg'[t].job \in DOMAIN jobs
             /\ ret'[t].val = "false"
                  => /\ jobs' = jobs /\ nposts' = nposts /\ lastPost' = lastPost
                     /\ \/ /\ ret'[t].log = "warning"
                           /\ arg'[t].job \in DOMAIN jobs
                           /\ ~ValidTransition(jobs[arg'[t].job].status, arg'[t].new)
                        \/ /\ ret'[t].log = "error"
                           /\ arg'[t].job \notin DOMAIN jobs]_vars

\* a call on a job that does not exist has returned False
C10_Witness ==
    /\ pc[1] = "ret"
    /\ ret[1] = [val |-> "false", log |-> "error"]
    /\ arg[1].job \notin DOMAIN jobs

(* C11: after any add_message_to_job / add_messages_to_job_async calls each
   message id belongs to at most one job, and a call that fails on a
   message already associated adds no association *)
C11_MessageInOneJob ==
    [][ /\ \A r1, r2 \in job_messages' : r1[2] = r2[2] => r1 = r2
        /\ (/\ last'.op \in {"add_message_to_job", "add_messages_to_job_async"}
            /\ last'.result = "IntegrityError")
           => job_messages' = job_messages ]_vars

\* a list with a fresh and a taken message was refused for another job
C11_Witness ==
    /\ last = Outcome("add_messages_to_job_async", "j2", "IntegrityError", "none")
    /\ job_messages = {<<"j1", "msg1">>}

(* C12: get_job_usage returns, for each token field, the sum of the values
   handed to add_job_usage for the job, and the number of those calls as
   step_count; all zero for a job without steps *)
C12_UsageIsSum ==
    /\ \A j \in DOMAIN jobs : SumUsage(steps, j) = usageIn[j]
    /\ (last.op = "get_job_usage" /\ last.result = "ok")
       => last.value = usageIn[last.job]

\* a job with two steps was asked for its usage
C12_Witness ==
    /\ last.op = "get_job_usage"
    /\ last.result = "ok"
    /\ last.value.step_count = 2
    /\ last.value.total_tokens = 7

(* C13: get_job_messages, get_job_steps, add_message_to_job and
   add_messages_to_job_async raise NoResultFound when the job does not
   exist, whatever the arguments *)
C13_MissingJobRaises ==
    (/\ last.op \in {"get_job_messages", "get_job_steps", "add_message_to_job",
                     "add_messages_to_job_async"}
     /\ last.job \notin used)
    => last.result = "NoResultFound"

\* the entry points that create passages
CreateOps ==
    {"create_agent_passage", "create_source_passage", "create_passage",
     "create_many_agent_passages_async", "create_many_source_passages_async"}

(* C14: after any passage-manager operations every stored passage has
   exactly one of agent_id and source_id: agent rows have agent_id and no
   source_id, source rows have source_id and no agent_id *)
C14_ExactlyOneOwner ==
    /\ \A id \in DOMAIN agent_passages :
          agent_passages[id].agent_id # NoId /\ agent_passages[id].source_id = NoId
    /\ \A id \in DOMAIN source_passages :
          source_passages[id].source_id # NoId /\ source_passages[id].agent_id = NoId

\* an agent row was updated with a passage naming both ids, next to a
\* source row
C14_Witness ==
    /\ plast.op = "update_agent_passage_by_id"
    /\ plast.result = "ok"
    /\ plast.both
    /\ DOMAIN source_passages # {}

(* C15: a create handed a passage with both agent_id and source_id is
   rejected and writes no passage row and no vector-store row, through
   every create entry point *)
C15_BothIdsRejected ==
    (plast.op \in CreateOps /\ plast.both)
    => (plast.result # "ok" /\ plast.ids = {})

(* C16: every stored passage with an embedding has len(embedding) equal to
   its embedding_config dimension *)
C16_EmbeddingHasConfigDim ==
    \A id \in Stored :
       Row(id).embedding # NoEmbedding
       => Len(Row(id).embedding) = Row(id).embedding_dim

(* C17: with the vector store configured and its writes succeeding, every
   passage with an embedding that a create entry point returned has a
   vector-store row under its id with that embedding and the metadata
   agent_id, source_id, text[:1000] and created_at *)
C17_CreatedIsMirrored ==
    (/\ vsOn
     /\ ~ vsFailed
     /\ plast.op \in CreateOps
     /\ plast.result = "ok")
    => \A id \in plast.ids :
          Row(id).embedding # NoEmbedding
          => /\ id \in DOMAIN vstore
             /\ vstore[id].embedding = Row(id).embedding
             /\ JsonLoads(vstore[id].metadata) =
                  [agent_id |-> Row(id).agent_id,
                   source_id |-> Row(id).source_id,
                   text |-> 1000,
                   created_at |-> IsoFormat(Row(id).created_at)]

(* C18: after delete_agent_passage_by_id or delete_source_passage_by_id
   succeeds, neither the passage row nor a vector-store row of that id
   exists *)
C18_DeletedLeavesNoVector ==
    (/\ plast.op \in {"delete_agent_passage_by_id", "delete_source_passage_by_id"}
     /\ plast.result = "ok")
    => \A id \in plast.ids : id \notin Stored /\ id \notin DOMAIN vstore

(* C19: when the vector-store write fails during a passage create, the
   create returns the passage and its row stays written *)
C19_StoreFailureKeepsCreate ==
    (plast.op \in CreateOps /\ plast.vs = "error")
    => /\ plast.result = "ok"
       /\ plast.ids # {}
       /\ plast.ids \subseteq Stored

\* a create whose embedding the vector store refused
C19_Witness ==
    /\ plast.op = "create_agent_passage"
    /\ plast.vs = "error"
    /\ plast.ids = {"p1"}
    /\ "p1" \in DOMAIN agent_passages
    /\ "p1" \notin DOMAIN vstore

(* C20: after update_agent_passage_by_id or update_source_passage_by_id,
   with the vector store configured and never failing, the vector-store row
   of the passage holds the passage's embedding *)
C20_UpdateRemirrors ==
    (/\ vsOn
     /\ ~ vsFailed
     /\ plast.op \in {"update_agent_passage_by_id", "update_source_passage_by_id"}
     /\ plast.result = "ok")
    => \A id \in plast.ids :
          Row(id).embedding # NoEmbedding
          => /\ id \in DOMAIN vstore
             /\ vstore[id].embedding = Row(id).embedding

\* what get_embedding returns for the passage of the last store_embedding,
\* after the step
C21Got == GetEmbedding(vstore', vlast'.args.id)

\* the step is a store_embedding call that returned
C21Stored == vlast'.op = "store_embedding" /\ vlast'.result = "ok"

\* the call leaves the rows of the other passages alone and one row for its
\* own, and repeating it changes nothing
C21Replaces ==
    /\ DOMAIN vstore' = DOMAIN vstore \cup {vlast'.args.id}
    /\ \A id \in DOMAIN vstore \ {vlast'.args.id} : vstore'[id] = vstore[id]
    /\ vstore'[vlast'.args.id].embedding_dim = Len(vlast'.args.embedding)
    /\ C21Got.found
    /\ C21Got.embedding = vlast'.args.embedding
    /\ Upsert(vstore', vlast'.args.id, vlast'.args.embedding,
              vlast'.args.metadata) = vstore'

(* C21: after a store_embedding call the store holds one row for the id
   with the embedding, dimension and metadata of that call, and repeating
   the call changes nothing *)
C21_UpsertKeepsLatest ==
    [][C21Stored => (C21Replaces /\ C21Got.metadata = vlast'.args.metadata)]_vars

(* C21 as amended: the same, except that an empty metadata dict is stored
   as no metadata *)
C21_UpsertKeepsLatestTruthy ==
    [][C21Stored =>
         (/\ C21Replaces
          /\ C21Got.metadata = IF vlast'.args.metadata = EmptyMetadata
                               THEN NoMetadata ELSE vlast'.args.metadata)]_vars

\* a row was replaced by a call with another embedding and metadata
C21_Witness ==
    /\ vlast = VOutcome("store_embedding",
                        [id |-> "p1", embedding |-> <<0, 1>>,
                         metadata |-> [agent_id |-> NoId, source_id |-> "s1"]],
                        "ok", <<>>)
    /\ "p2" \in DOMAIN vstore
    /\ vstore["p1"].embedding = <<0, 1>>

\* the stored passages a search of query q in the scope should consider
C22InScope(q, agent_id, source_id) ==
    {id \in Selected(vstore, q, Len(q)) :
        /\ vstore[id].metadata # SqlNull
        /\ \/ agent_id # NoId /\ JsonLoads(vstore[id].metadata).agent_id = agent_id
           \/ source_id # NoId /\ JsonLoads(vstore[id].metadata).source_id = source_id
           \/ agent_id = NoId /\ source_id = NoId}

(* C22: a search with a scope returns passages of that scope only, and
   exactly top_k of them whenever at least top_k passages of the scope
   qualify *)
C22_ScopedTopK ==
    (/\ vlast.op = "search"
     /\ <<vlast.args.agent_id, vlast.args.source_id>> # <<NoId, NoId>>)
    => LET inscope == C22InScope(vlast.args.query, vlast.args.agent_id,
                                 vlast.args.source_id) IN
       /\ \A i \in 1..Len(vlast.value) : vlast.value[i] \in inscope
       /\ Cardinality(inscope) >= vlast.args.top_k
          => Len(vlast.value) = vlast.args.top_k

(* C23: a search with top_k = 0 returns nothing, and with top_k greater
   than the number of stored passages it returns all of them *)
C23_TopKBounds ==
    (/\ vlast.op = "search"
     /\ <<vlast.args.agent_id, vlast.args.source_id>> = <<NoId, NoId>>)
    => /\ vlast.args.top_k = 0 => vlast.value = <<>>
       /\ (/\ vlast.args.top_k > Cardinality(DOMAIN vstore)
           /\ C22InScope(vlast.args.query, NoId, NoId) = DOMAIN vstore)
          => Len(vlast.value) = Cardinality(DOMAIN vstore)

(* C24: a batch_store_embeddings call that fails stores or changes no row,
   and one that returns has stored every row of the batch *)
C24_BatchAtomic ==
    [][ /\ (vlast'.op = "batch_store_embeddings" /\ vlast'.result = "error")
           => vstore' = vstore
        /\ (vlast'.op = "batch_store_embeddings" /\ vlast'.result = "ok")
           => \A i \in 1..vlast'.args.n :
                 /\ i \in DOMAIN vstore'
                 /\ vstore'[i].embedding = vlast'.args.embedding ]_vars

(* C25: once the workers have drained, the audit store holds exactly one
   row per logged event, under pairwise distinct ids *)
C25_EveryEventStoredOnce ==
    (aq = <<>> /\ adbOpen /\ ~ aclosed)
    => /\ Cardinality(adb) = alogged
       /\ \A n \in 1..alogged : Cardinality({r \in adb : r.n = n}) = 1
       /\ \A r1, r2 \in adb : r1.id = r2.id => r1 = r2

(* C27: the number of pending audit events never exceeds a fixed capacity
   (here: one less than the events logged in a run) *)
C27_PendingBounded == Len(aq) <= MaxEvents - 1

(* C28: log_event never raises to its caller, whether the store is
   missing, a write fails or the audit system is closed *)
C28_LogEventNeverRaises == alast \in {"none", "ok"}

(* C29: at most one ServerAuditSystem is ever created, and all callers of
   get_audit_system get the same instance *)
C29_OneInstance ==
    /\ ninst <= 1
    /\ \A t1, t2 \in Threads :
          (gseen[t1] # 0 /\ gseen[t2] # 0) => gseen[t1] = gseen[t2]

(* C26: the risk score of an event is the base score of its event type
   plus 30 for a sensitive-data hit, 25 or 15 for high- or medium-risk
   content, 20 for a compliance-rule miss, 25 for failure, 20 for repeated
   failures above the threshold and 15 for a bulk marker, capped at 100,
   so it is an integer between 0 and 100 *)
C26Sum(in) ==
    LET fa == in.financial_analysis
        add(b, n) == IF b THEN n ELSE 0
    IN  BaseScore(in.event_type)
        + add(fa.analysed /\ fa.sensitive_data_detected, 30)
        + add(fa.analysed /\ fa.risk_level = "high", 25)
        + add(fa.analysed /\ fa.risk_level = "medium", 15)
        + add(fa.analysed /\ fa.compliance_issues, 20)
        + add(~ in.success, 25)
        + add(in.failed_attempts >= 3, 20)
        + add(in.bulk_operation, 15)

C26_RiskScoreCapped ==
    risk # NoRisk
    => /\ risk.out \in 0..100
       /\ risk.out = IF C26Sum(risk.in) > 100 THEN 100 ELSE C26Sum(risk.in)

C26_Witness ==
    /\ risk # NoRisk
    /\ C26Sum(risk.in) > 100
    /\ risk.out = 100

(* C30: the audit endpoints answer a report request with an unsupported
   format, and an event submission with an unknown event type or level,
   with 400, and a report request without an audit database with 404 *)
C30_CallerErrorsKeepStatus ==
    /\ (http.endpoint = "report"
        /\ http.in.format \notin {"html", "json", "csv"})
       => http.status = 400
    /\ (http.endpoint = "report"
        /\ http.in.format \in {"html", "json", "csv"}
        /\ ~ http.in.dbExists)
       => http.status = 404
    /\ (http.endpoint = "log-event"
        /\ (http.in.event_type \notin AuditEventTypes
            \/ http.in.level \notin AuditLevels))
       => http.status = 400

(* C31: generate_embedded_passages returns one passage per chunk, the i-th
   with the text of chunks[i] and the embedding the provider returned for
   chunks[i], whatever order the batches finished in *)
C31_InputOrderKept ==
    eout.result = "ok"
    => /\ Len(eout.passages) = Len(echunks)
       /\ \A i \in 1..Len(echunks) :
             /\ eout.passages[i].text = echunks[i]
             /\ eout.passages[i].embedding = Provider(echunks[i])

C31_Witness ==
    /\ eout.result = "ok"
    /\ Len(echunks) = 4
    /\ ebatch = 2
    /\ eresults[2].rank < eresults[1].rank
    /\ eout.passages[3].embedding = Provider("b")

(* C32: the embedding requests in flight at the same time never exceed
   max_concurrent_requests *)
C32_InFlightBounded ==
    /\ einflight <= max_concurrent_requests
    /\ Cardinality(InFlight) <= max_concurrent_requests

C32_Witness ==
    /\ einflight = max_concurrent_requests
    /\ ewaiting > 0

(* C40: if the request of any batch fails, generate_embedded_passages
   raises once all batches have finished and returns no passage at all *)
C40_AllOrNothing ==
    eout # NoEOut
    => /\ DOMAIN eresults = 1..NumBatches(Len(echunks), ebatch)
       /\ (\E b \in DOMAIN eresults : ~ eresults[b].ok)
          => (eout.result = "raise" /\ eout.passages = <<>>)

C40_Witness ==
    /\ eout.result = "raise"
    /\ \E b \in DOMAIN eresults : eresults[b].ok
    /\ \E b \in DOMAIN eresults : ~ eresults[b].ok

(* C33: with OpenGauss enabled, once initialize_sync and initialize_async
   have both run on one registry, in either order and without force,
   initialize_opengauss_database was invoked exactly once *)
C33_DatabaseInitialisedOnce ==
    (/\ dcfg.enable_opengauss
     /\ dcfg.pg_uri
     /\ ~ dreg.forced
     /\ ~ dreg.failed
     /\ dreg.initialized.sync
     /\ dreg.initialized.async)
    => dreg.calls = 1

(* C34: with OpenGauss enabled, initialize_sync invokes the database
   initialisation before it creates the engine; if the initialisation
   reports failure, initialize_sync raises, no engine or session factory
   is registered and the registry stays uninitialised *)
C34Runs ==
    /\ dcfg.enable_opengauss
    /\ dcfg.pg_uri
    /\ dlast.op = "initialize_sync"
    /\ dlast.result # "return"

C34_FailedInitRegistersNothing ==
    C34Runs
    => /\ dlast.trace # <<>>
       /\ dlast.trace[1] = "initialize_opengauss_database"
       /\ dlast.result = "RuntimeError"
          => /\ "sync" \notin dreg.engines
             /\ "sync" \notin dreg.factories
             /\ ~ dreg.initialized.sync

(* C34 for a registry whose sync engine was not initialised before the
   call; a forced call on an initialised registry that fails keeps the
   engine, the session factory and the flag it had *)
C34_FailedInitChangesNothing ==
    C34Runs
    => /\ dlast.trace # <<>>
       /\ dlast.trace[1] = "initialize_opengauss_database"
       /\ dlast.result = "RuntimeError"
          => /\ dreg.engines = dlast.before.engines
             /\ dreg.factories = dlast.before.factories
             /\ dreg.initialized = dlast.before.initialized
             /\ ~ dlast.before.initialized.sync
                => /\ "sync" \notin dreg.engines
                   /\ "sync" \notin dreg.factories
                   /\ ~ dreg.initialized.sync

C34_Witness ==
    /\ C34Runs
    /\ dlast.result = "RuntimeError"
    /\ ~ dlast.before.initialized.sync
    /\ dreg.calls = 2

(* C35: a turn makes at most MAX_STEPS LLM calls; with MAX_STEPS = 1 and an
   LLM that answers only with tool calls it ends with stop_reason
   max_steps after exactly one LLM call *)
C35_TurnBoundedByMaxSteps ==
    \A t \in Turns :
        /\ lturn[t].calls <= lturn[t].max
        /\ (lturn[t].pc = "done" /\ lturn[t].max = 1 /\ ~ lturn[t].final)
           => (lturn[t].stop = "max_steps" /\ lturn[t].calls = 1)

C35_Witness ==
    \E t \in Turns :
        /\ lturn[t].pc = "done"
        /\ lturn[t].max = 1
        /\ lturn[t].stop = "max_steps"
        /\ lturn[t].calls = 1

(* C36: turns on the same agent never overlap, and the messages of
   different turns are never interleaved in the agent's history *)
C36Active(t) == lturn[t].pc \in {"llm", "tools"}

C36_TurnsSerialized ==
    /\ \A t1, t2 \in Turns :
          (t1 # t2 /\ C36Active(t1) /\ C36Active(t2))
          => lturn[t1].agent # lturn[t2].agent
    /\ \A a \in Agents : \A i, j, k \in 1..Len(lhistory[a]) :
          (i < j /\ j < k /\ lhistory[a][i].turn = lhistory[a][k].turn)
          => lhistory[a][j].turn = lhistory[a][i].turn

C36_Witness ==
    \E a \in Agents, t1, t2 \in Turns :
        /\ t1 # t2
        /\ lturn[t1].pc = "done"
        /\ lturn[t1].agent = a
        /\ lturn[t2].pc = "queued"
        /\ lturn[t2].agent = a
        /\ llock[a] = 0

(* C39: after n completed log_event calls by any number of threads the
   statistics report total_events = n *)
C39_StatsCountEveryEvent ==
    (\A t \in Threads : spc[t] = "idle") => stotal = sdone

(* C37: for every job state and every JobUpdate, update_job_by_id and
   update_job_by_id_async leave the job with the same status and
   completed_at and dispatch the same number of callbacks; an update of a
   job that already has completed_at keeps it and sends no callback *)
C37Sync(j, u) ==
    Updated(jobs[j], u, clock, SyncCompletes(jobs[j], u), PostError)

C37Async(j, u) ==
    Updated(jobs[j], u, clock, AsyncCompletes(jobs[j], u), PostError)

C37_SyncAsyncAgree ==
    \A j \in DOMAIN jobs : \A u \in Updates :
        /\ C37Sync(j, u).status = C37Async(j, u).status
        /\ C37Sync(j, u).completed_at = C37Async(j, u).completed_at
        /\ Dispatches(jobs[j], SyncCompletes(jobs[j], u))
           <=> Dispatches(jobs[j], AsyncCompletes(jobs[j], u))
        /\ (jobs[j].completed_at # NoTime /\ u.completed_at = NoTime)
           => /\ C37Async(j, u).completed_at = jobs[j].completed_at
              /\ ~ Dispatches(jobs[j], AsyncCompletes(jobs[j], u))

(* C38: close() flushes: every event that is still pending when close()
   is called (log_event had returned for it) is in the audit database once
   the workers close() waits for have handled it *)
C38_CloseFlushes ==
    [][(aclosed /\ adbOpen /\ aq # <<>> /\ aq' = Tail(aq))
       => (\E r \in adb' : r.n = Head(aq).n)]_vars

=============================================================================
